---------------------------- MODULE Spec2Model ----------------------------
(***************************************************************************)
(* Model of the recipe-generator HTTP backend (latest database-backed      *)
(* revision, src/unnamed/part_002 lines 795-2067, with the blob helper of  *)
(* src/unnamed/part_003 lines 1080-1174).                                  *)
(*                                                                         *)
(* One request is in flight at a time.  A handler is a sequence of steps,  *)
(* one step per call of an external collaborator (LLM completion,          *)
(* transcription, database statement, blob upload); the glue code between  *)
(* two calls belongs to the step that follows it.  The outcome of every    *)
(* external call is chosen by the environment.                             *)
(*                                                                         *)
(* Texts.  A text that the program inspects character by character (an LLM *)
(* answer scanned with strings.Contains, a title rewritten with            *)
(* strings.ReplaceAll) is a sequence of one-character strings.  A prompt,  *)
(* which the program only concatenates and passes on, is a TLA+ string.    *)
(* A blob (a recipe body, the index document, a blob path) is a sequence   *)
(* of chunks: program literals are one chunk each, a title contributes its *)
(* characters, a recipe body is one chunk.                                 *)
(***************************************************************************)
EXTENDS Integers, Sequences, FiniteSets, TLC

VARIABLES
    route,   \* the route of the request being handled ("none" when idle)
    req,     \* the decoded request (method, body or form fields, caller)
    pc,      \* position of the handler of the request in flight
    loc,     \* the handler's local variables
    calls,   \* external calls made so far by the request in flight, in order
    resp,    \* the response written to the client
    served,  \* number of requests received so far
    users,   \* table users: set of rows [id, oauth_id, subdomain]
    db,      \* table recipes: set of rows [id, user_id, title, content, category]
    nextId,  \* next value of the serial column recipes.id
    blobs,   \* per storage account, the blobs of container $web: path -> content
    globals  \* the package-level variables subscriptionID, storageClientFactory
             \* and accountsClient: for each, the request that wrote it last

vars == <<route, req, pc, loc, calls, resp, served, users, db, nextId, blobs, globals>>

-----------------------------------------------------------------------------
(* Bounds of the model *)

\* an LLM answer to the judge is a concatenation of at most MaxParts pieces
MaxParts == 2

\* requests received in one behaviour
MaxRequests == 2

\* the largest recipes.id the model hands out
MaxId == 2

-----------------------------------------------------------------------------
(* Character-level string functions of the Go standard library *)

\* unicode.ToLower on the characters that occur in the model
LowerChar(c) ==
    CASE c = "Y" -> "y"
      [] c = "E" -> "e"
      [] c = "S" -> "s"
      [] c = "N" -> "n"
      [] c = "O" -> "o"
      [] OTHER -> c

\* strings.ToLower
ToLower(s) == [i \in 1..Len(s) |-> LowerChar(s[i])]

\* strings.Contains(s, substr)
Contains(s, substr) ==
    \E i \in 0..(Len(s) - Len(substr)) : SubSeq(s, i + 1, i + Len(substr)) = substr

\* the literal "yes" of both judge functions
yes == <<"y", "e", "s">>

-----------------------------------------------------------------------------
(* Outcomes of a call of the completion API *)

\* the provider fails ("err"), answers with zero choices ("empty"), or
\* answers with a first choice whose content is text ("ok")
Outcomes(texts, none) ==
    {[kind |-> "err", text |-> none], [kind |-> "empty", text |-> none]}
        \cup {[kind |-> "ok", text |-> t] : t \in texts}

RECURSIVE Concats(_, _)
\* all concatenations of at most n pieces
Concats(pieces, n) ==
    IF n = 0 THEN {<<>>}
    ELSE LET shorter == Concats(pieces, n - 1)
         IN  shorter \cup {p \o t : p \in pieces, t \in shorter}

JudgePieces ==
    { <<"y", "e", "s">>, <<"Y", "e", "s">>, <<"Y", "E", "S">>, <<"n", "o">>,
      <<"N", "o">>, <<".">>, <<" ">>, <<"y">>, <<"e", "s">>, <<"E", "S">> }

\* the answers the LLM may give to the judge's question
JudgeTexts == Concats(JudgePieces, MaxParts)


-----------------------------------------------------------------------------
(* Program constants: the fixed prompt texts *)

germanSystemMessage ==
    "Du bist ein Agent, der das Format von Rezepten ändert." \o
    "Das Rezept muss im Markdown-Format sein: " \o
    "# <Rezeptname>\n" \o
    "## Zutaten\n" \o
    "- **<MENGE>** Zutat \n" \o
    "## Zubereitung \n" \o
    "### <Anweisung> z.B. Teig anrühren/Vorbereitung\n" \o
    "- <Schritte>\n" \o
    "### <Anweisung> z.B. Backen/Braten\n" \o
    "- <Scritte>\n" \o
    "Alle Zutaten müssen in metrischen Einheiten angegeben werden."

englishSystemMessage ==
    "You are an agent that changes the format recipes" \o
    "The recipe needs to be in markdown format: " \o
    "# <Recipe Name>\n" \o "## Ingredients\n" \o "- **<UNIT>** Ingredient \n" \o "## Preparation" \o
    "### Instructionset 1\n" \o
    "- Steps\n" \o
    "### Instructionset 2" \o
    "- Steps\n" \o
    "All ingredients need to be in metric units."

judgeSystemMessage ==
    "You are a judge AI agent that decides whether input is related to a recipe or not."

\* the user message both judge functions build from the candidate text
judgeUserMessage(text) ==
    "Is this input related to a recipe? Only answer with 'yes' or 'no'" \o text

SystemMessage(content) == [role |-> "system", content |-> content]
UserMessage(content) == [role |-> "user", content |-> content]

-----------------------------------------------------------------------------
(* Inputs of the environment *)

Methods == {"POST", "GET"}

Descriptions == {"", "tomato soup", "my car won't start"}

\* body of a by-description request: not JSON at all, or a JSON object
\* (an absent field decodes to the zero value)
DescriptionBodies ==
    {[ok |-> FALSE, RecipeDescription |-> "", IsGerman |-> FALSE]}
        \cup {[ok |-> TRUE, RecipeDescription |-> d, IsGerman |-> g] :
                d \in Descriptions, g \in BOOLEAN}

\* multipart form of a by-voice request
VoiceForms ==
    [formOk : BOOLEAN, hasAudio : BOOLEAN, isGerman : {"true", "false", "", "ja"}]

\* what the speech-to-text service may return
Transcripts == {"", "tomato soup", "my car won't start"}

\* what the LLM may return for a generation and for a naming call
RecipeTexts == {"# Tomatensuppe\n## Zutaten\n", "# Tomato Soup\n## Ingredients\n"}
NameTexts == {"Tomato Soup", "Grandmas Best Creamy Tomato Soup"}

-----------------------------------------------------------------------------
(* The completion client *)

\* pattern "if err != nil { return "", err }; return Choices[0].Message.Content":
\* an empty choice list makes the index expression panic
FirstChoice(out) ==
    [err |-> out.kind = "err", panic |-> out.kind = "empty",
     text |-> IF out.kind = "ok" THEN out.text ELSE ""]

\* a prompt builder that picks the contract of the other locale
openAIgenerateRecipeMessagesOtherLocale(recipeDescription, isGerman) ==
    IF isGerman
    THEN << SystemMessage(englishSystemMessage),
            UserMessage("Generate a recipe for the following description: " \o recipeDescription) >>
    ELSE << SystemMessage(germanSystemMessage),
            UserMessage("Erstelle ein Rezept für folgende Beschreibung: " \o recipeDescription) >>

\* messages built by openAIgenerateRecipe
openAIgenerateRecipeMessages(recipeDescription, isGerman) ==
    IF isGerman
    THEN << SystemMessage(germanSystemMessage),
            UserMessage("Erstelle ein Rezept für folgende Beschreibung: " \o recipeDescription) >>
    ELSE << SystemMessage(englishSystemMessage),
            UserMessage("Generate a recipe for the following description: " \o recipeDescription) >>

\* result of openAIgenerateRecipe for a provider outcome
openAIgenerateRecipe(out) == FirstChoice(out)

\* messages built by openAIgenerateRecipeName
openAIgenerateRecipeNameMessages(Recipe, isGerman) ==
    IF isGerman
    THEN << SystemMessage("Du bist ein Agent, der nur mit dem Rezeptnamen antwortet. Maximal 2 Wörter."),
            UserMessage("Generiere einen Rezeptnamen für: " \o Recipe) >>
    ELSE << SystemMessage("You only respond with the recipe name. 2 words max."),
            UserMessage("Generate a recipe name for: " \o Recipe) >>

\* a naming function that cuts the answer down to its first two words
openAIgenerateRecipeNameTwoWords(out) ==
    [err |-> out.kind = "err", panic |-> out.kind = "empty",
     text |-> IF out.kind # "ok" THEN ""
              ELSE IF out.text = "Grandmas Best Creamy Tomato Soup" THEN "Grandmas Best"
              ELSE out.text]

\* result of openAIgenerateRecipeName for a provider outcome
openAIgenerateRecipeName(out) == FirstChoice(out)

\* goopenAIChatCompletion: a provider error and an empty choice list are both errors
goopenAIChatCompletion(out) ==
    IF out.kind = "ok" THEN [err |-> FALSE, text |-> out.text]
    ELSE [err |-> TRUE, text |-> <<>>]

\* goopenAIgenerateTranscript: the outcome is an error or the transcript
TranscriptOutcomes ==
    {[kind |-> "err", text |-> ""]} \cup {[kind |-> "ok", text |-> t] : t \in Transcripts}

-----------------------------------------------------------------------------
(* The judge gate *)

JudgeOutcomes == Outcomes(JudgeTexts, <<>>)

\* a judge that lets the input pass when the provider fails
isRecipeRelatedFailOpen(out) ==
    LET result == goopenAIChatCompletion(out)
    IN  IF result.err THEN TRUE
        ELSE Contains(ToLower(result.text), yes)

\* isRecipeRelated (by-voice): verdict for a provider outcome
isRecipeRelated(out) ==
    LET result == goopenAIChatCompletion(out)
    IN  IF result.err THEN FALSE
        ELSE Contains(ToLower(result.text), yes)

\* HandlerIsRecipeRelated (by-description): verdict for a request body and a
\* provider outcome; the body is decoded first, the completion is requested
\* only for a decodable body
HandlerIsRecipeRelated(body, out) ==
    IF ~body.ok THEN [panic |-> FALSE, value |-> FALSE]
    ELSE IF out.kind = "err" THEN [panic |-> FALSE, value |-> FALSE]
    ELSE IF out.kind = "empty" THEN [panic |-> TRUE, value |-> FALSE]
    ELSE [panic |-> FALSE, value |-> Contains(out.text, yes)]

-----------------------------------------------------------------------------
(* Requests, responses, handler state *)

\* http.Error(w, msg, status), or a bare w.WriteHeader(status)
Reply(status, msg) ==
    [status |-> status, msg |-> msg, recipename |-> "", recipe |-> "", transcript |-> "",
     recipes |-> <<>>]

\* a 200 response carrying the JSON encoding of a Recipe value
ReplyRecipe(recipename, recipe, transcript) ==
    [status |-> 200, msg |-> "", recipename |-> recipename, recipe |-> recipe,
     transcript |-> transcript, recipes |-> <<>>]

\* nothing written yet
NoResp == Reply(0, "")

Loc0 ==
    [judged |-> FALSE, verdict |-> FALSE, isGerman |-> FALSE,
     transcript |-> "", recipe |-> "",
     userID |-> 0, account |-> "", category |-> "", doc |-> <<>>]

Call(fn, msgs, out) == [fn |-> fn, msgs |-> msgs, out |-> out]

Idle == pc \in {"idle", "done", "panicked"}

\* the handler returns after writing response r
Finish(r) == pc' = "done" /\ resp' = r

\* the handler panics: net/http recovers it and drops the connection, no
\* response is written
Panics == pc' = "panicked" /\ resp' = NoResp

\* the package-level variables before any login has run
NoGlobals == [subscriptionID |-> 0, storageClientFactory |-> 0, accountsClient |-> 0]

StoreUnchanged == UNCHANGED <<users, db, nextId, blobs, globals>>

\* a new request arrives on route rt; its handler starts at position start
Receive(rt, r, start) ==
    /\ Idle
    /\ served < MaxRequests
    /\ route' = rt
    /\ req' = r
    /\ pc' = start
    /\ loc' = Loc0
    /\ calls' = <<>>
    /\ resp' = NoResp
    /\ served' = served + 1
    /\ StoreUnchanged

-----------------------------------------------------------------------------
(* Route /api/v1/generate/by-description:                                    *)
(* HandlerJudgeMiddleware(HandleGenerateByDescription)                       *)

RecvGenerateByDescription ==
    \E m \in Methods, b \in DescriptionBodies :
        Receive("by-description", [method |-> m, body |-> b], "middleware")

\* a middleware that calls the handler without asking the judge
HandlerJudgeMiddlewareUngated ==
    /\ pc = "middleware"
    /\ pc' = "handler"
    /\ UNCHANGED <<served, route, req, loc, calls, resp>>
    /\ StoreUnchanged

\* the middleware: asks the judge, rejects with 400 or calls the handler
HandlerJudgeMiddleware ==
    /\ pc = "middleware"
    /\ \E out \in JudgeOutcomes :
        LET v == HandlerIsRecipeRelated(req.body, out)
            msgs == << SystemMessage(judgeSystemMessage),
                       UserMessage(judgeUserMessage(req.body.RecipeDescription)) >>
        IN  /\ calls' = IF req.body.ok THEN Append(calls, Call("judge", msgs, out))
                        ELSE calls
            /\ IF v.panic
               THEN /\ Panics
                    /\ UNCHANGED loc
               ELSE /\ loc' = [loc EXCEPT !.judged = TRUE, !.verdict = v.value]
                    /\ IF ~v.value
                       THEN Finish(Reply(400, "Input rejected by LLM judge"))
                       ELSE pc' = "handler" /\ UNCHANGED resp
    /\ UNCHANGED <<served, route, req>>
    /\ StoreUnchanged

\* HandleGenerateByDescription up to its first external call
HandleGenerateByDescription_decode ==
    /\ pc = "handler"
    /\ route = "by-description"
    /\ IF req.method # "POST"
       THEN Finish(Reply(405, "Invalid request method"))
       ELSE IF ~req.body.ok
       THEN Finish(Reply(400, "Invalid JSON payload"))
       ELSE IF req.body.RecipeDescription = ""
       THEN Finish(Reply(400, "Missing recipename"))
       ELSE pc' = "generate" /\ UNCHANGED resp
    /\ UNCHANGED <<served, route, req, loc, calls>>
    /\ StoreUnchanged

\* GenerateRecipeByName -> openAIgenerateRecipe
HandleGenerateByDescription_generate ==
    /\ pc = "generate"
    /\ route = "by-description"
    /\ \E out \in Outcomes(RecipeTexts, "") :
        LET r == openAIgenerateRecipe(out)
        IN  /\ calls' = Append(calls,
                  Call("generate",
                       openAIgenerateRecipeMessages(req.body.RecipeDescription, req.body.IsGerman),
                       out))
            /\ IF r.panic THEN Panics /\ UNCHANGED loc
               ELSE IF r.err
               THEN Finish(Reply(500, "Error generating recipe")) /\ UNCHANGED loc
               ELSE /\ loc' = [loc EXCEPT !.recipe = r.text]
                    /\ pc' = "name"
                    /\ UNCHANGED resp
    /\ UNCHANGED <<served, route, req>>
    /\ StoreUnchanged

\* openAIgenerateRecipeName, then the JSON response
HandleGenerateByDescription_name ==
    /\ pc = "name"
    /\ route = "by-description"
    /\ \E out \in Outcomes(NameTexts, "") :
        LET n == openAIgenerateRecipeName(out)
        IN  /\ calls' = Append(calls,
                  Call("name", openAIgenerateRecipeNameMessages(loc.recipe, req.body.IsGerman), out))
            /\ IF n.panic THEN Panics
               ELSE IF n.err
               THEN Finish(Reply(500, "Error generating recipe name"))
               ELSE Finish(ReplyRecipe(n.text, loc.recipe, ""))
    /\ UNCHANGED <<served, route, req, loc>>
    /\ StoreUnchanged

-----------------------------------------------------------------------------
(* Route POST /api/v1/generate/by-voice: HandleGenerateRecipeByVoice *)

RecvGenerateRecipeByVoice ==
    \E f \in VoiceForms : Receive("by-voice", f, "form")

\* form parsing and validation of the locale flag
HandleGenerateRecipeByVoice_form ==
    /\ pc = "form"
    /\ route = "by-voice"
    /\ IF ~req.formOk
       THEN Finish(Reply(400, "Failed to parse form data")) /\ UNCHANGED loc
       ELSE IF ~req.hasAudio
       THEN Finish(Reply(400, "Failed to get the audio file")) /\ UNCHANGED loc
       ELSE IF req.isGerman = ""
       THEN Finish(Reply(400, "isGerman cannot be empty")) /\ UNCHANGED loc
       ELSE IF req.isGerman \notin {"true", "false"}
       THEN Finish(Reply(400, "isGerman must be 'true' or 'false'")) /\ UNCHANGED loc
       ELSE /\ loc' = [loc EXCEPT !.isGerman = (req.isGerman = "true")]
            /\ pc' = "transcribe"
            /\ UNCHANGED resp
    /\ UNCHANGED <<served, route, req, calls>>
    /\ StoreUnchanged

\* a transcription step that hands the transcript straight to the generation
HandleGenerateRecipeByVoice_transcribeUnjudged ==
    /\ pc = "transcribe"
    /\ \E out \in TranscriptOutcomes :
        /\ calls' = Append(calls, Call("transcribe", <<>>, out))
        /\ IF out.kind = "err"
           THEN Finish(Reply(500, "Failed to generate recipe")) /\ UNCHANGED loc
           ELSE /\ loc' = [loc EXCEPT !.transcript = out.text]
                /\ pc' = "generate"
                /\ UNCHANGED resp
    /\ UNCHANGED <<served, route, req>>
    /\ StoreUnchanged

\* goopenAIgenerateTranscript
HandleGenerateRecipeByVoice_transcribe ==
    /\ pc = "transcribe"
    /\ \E out \in TranscriptOutcomes :
        /\ calls' = Append(calls, Call("transcribe", <<>>, out))
        /\ IF out.kind = "err"
           THEN Finish(Reply(500, "Failed to generate recipe")) /\ UNCHANGED loc
           ELSE /\ loc' = [loc EXCEPT !.transcript = out.text]
                /\ pc' = "judge"
                /\ UNCHANGED resp
    /\ UNCHANGED <<served, route, req>>
    /\ StoreUnchanged

\* isRecipeRelated(transcript) and the rejection that follows it
HandleGenerateRecipeByVoice_judge ==
    /\ pc = "judge"
    /\ \E out \in JudgeOutcomes :
        LET v == isRecipeRelated(out)
            msgs == << SystemMessage(judgeSystemMessage),
                       UserMessage(judgeUserMessage(loc.transcript)) >>
        IN  /\ calls' = Append(calls, Call("judge", msgs, out))
            /\ loc' = [loc EXCEPT !.judged = TRUE, !.verdict = v]
            /\ IF ~v
               THEN Finish(Reply(400, "Input rejected by LLM judge"))
               ELSE pc' = "generate" /\ UNCHANGED resp
    /\ UNCHANGED <<served, route, req>>
    /\ StoreUnchanged

\* openAIgenerateRecipe(transcript, isGerman)
HandleGenerateRecipeByVoice_generate ==
    /\ pc = "generate"
    /\ route = "by-voice"
    /\ \E out \in Outcomes(RecipeTexts, "") :
        LET r == openAIgenerateRecipe(out)
        IN  /\ calls' = Append(calls,
                  Call("generate", openAIgenerateRecipeMessages(loc.transcript, loc.isGerman), out))
            /\ IF r.panic THEN Panics /\ UNCHANGED loc
               ELSE IF r.err
               THEN Finish(Reply(500, "Error generating recipe")) /\ UNCHANGED loc
               ELSE /\ loc' = [loc EXCEPT !.recipe = r.text]
                    /\ pc' = "name"
                    /\ UNCHANGED resp
    /\ UNCHANGED <<served, route, req>>
    /\ StoreUnchanged

\* openAIgenerateRecipeName, then the JSON response with the transcript
HandleGenerateRecipeByVoice_name ==
    /\ pc = "name"
    /\ route = "by-voice"
    /\ \E out \in Outcomes(NameTexts, "") :
        LET n == openAIgenerateRecipeName(out)
        IN  /\ calls' = Append(calls,
                  Call("name", openAIgenerateRecipeNameMessages(loc.recipe, loc.isGerman), out))
            /\ IF n.panic THEN Panics
               ELSE IF n.err
               THEN Finish(Reply(500, "Error generating recipe"))
               ELSE Finish(ReplyRecipe(n.text, loc.recipe, loc.transcript))
    /\ UNCHANGED <<served, route, req, loc>>
    /\ StoreUnchanged

-----------------------------------------------------------------------------
(* The post-processor: category derivation *)

\* the label list of goopenAIgenerateRecipeCategory, in its order
categories == <<"Hauptgericht", "Vorspeise", "Brot", "Dessert">>

\* the characters of a label
Chars(c) ==
    CASE c = "Hauptgericht" -> <<"H", "a", "u", "p", "t", "g", "e", "r", "i", "c", "h", "t">>
      [] c = "Vorspeise" -> <<"V", "o", "r", "s", "p", "e", "i", "s", "e">>
      [] c = "Brot" -> <<"B", "r", "o", "t">>
      [] c = "Dessert" -> <<"D", "e", "s", "s", "e", "r", "t">>

\* a scan that accepts an answer only when it equals a label
scanCategoriesExact(category, i) ==
    LET hits == {j \in i..Len(categories) : category = Chars(categories[j])}
    IN  IF hits = {} THEN "Sonstiges"
        ELSE categories[CHOOSE j \in hits : \A k \in hits : j <= k]

RECURSIVE scanCategories(_, _)
\* the loop "for _, c := range categories": the first label, from position i
\* on, that the answer contains; "Sonstiges" when the loop runs out
scanCategories(category, i) ==
    IF i > Len(categories) THEN "Sonstiges"
    ELSE IF Contains(category, Chars(categories[i])) THEN categories[i]
    ELSE scanCategories(category, i + 1)

\* goopenAIgenerateRecipeCategory: the returned label for a provider outcome
goopenAIgenerateRecipeCategory(out) ==
    IF out.kind = "err" THEN [panic |-> FALSE, value |-> ""]
    ELSE IF out.kind = "empty" THEN [panic |-> TRUE, value |-> ""]
    ELSE [panic |-> FALSE, value |-> scanCategories(out.text, 1)]

\* the two text parts of the single user message of the category call
categoryMessages(Recipe) ==
    << [role |-> "user",
        parts |-> << "What is the category of this recipe? Currently only Hauptgericht, Vorspeise, Brot, Dessert are supported. Answer with a single word nothing else",
                     Recipe >>] >>

-----------------------------------------------------------------------------
(* Persistence: tables users and recipes, blob container $web *)

OAuthIds == {"oid-1", "oid-2", "oid-9"}

\* the users table after the logins of two users
InitUsers ==
    { [id |-> 1, oauth_id |-> "oid-1", subdomain |-> "acct1"],
      [id |-> 2, oauth_id |-> "oid-2", subdomain |-> "acct2"] }

Accounts == {"acct1", "acct2"}

Titles == { <<"a", " ", "b">>, <<"a", "-", "b">> }
Contents == { <<"# v1\n">>, <<"# v2\n">> }
SuppliedCategories == {"", "Brot"}

\* the answers of the LLM to the category question in the request handlers
CategoryAnswers == { <<"D", "e", "s", "s", "e", "r", "t">> }

\* strings.ReplaceAll(s, old, new) for one-character old and new
ReplaceAll(s, old, new) == [i \in 1..Len(s) |-> IF s[i] = old THEN new ELSE s[i]]

\* recipePath := "recipes/" + strings.ReplaceAll(name, " ", "-") + ".md"
recipePath(name) == <<"recipes/">> \o ReplaceAll(name, " ", "-") \o <<".md">>

\* GetUserInformation: the row of users with the given oauth_id; no such row
\* (pgx.ErrNoRows) and a failed query are both errors
GetUserInformation(oauthid, dbOk) ==
    LET rows == {u \in users : u.oauth_id = oauthid}
    IN  IF ~dbOk \/ rows = {}
        THEN [err |-> TRUE, userID |-> 0, subdomain |-> ""]
        ELSE LET u == CHOOSE u \in rows : TRUE
             IN  [err |-> FALSE, userID |-> u.id, subdomain |-> u.subdomain]

\* all orders in which a query without ORDER BY may return the rows
Orderings(S) ==
    {f \in [1..Cardinality(S) -> S] : \A i, j \in 1..Cardinality(S) : i # j => f[i] # f[j]}

\* a scan that reads the content column into the name and the title into the
\* recipe text
ScanRecipeSwapped(row) ==
    [ID |-> row.id, Recipename |-> row.content, Recipe |-> row.title, Category |-> row.category]

\* rows.Scan(&recipe.ID, &recipe.Recipename, &recipe.Recipe, &recipe.Category)
ScanRecipe(row) ==
    [ID |-> row.id, Recipename |-> row.title, Recipe |-> row.content, Category |-> row.category]

\* GetRecipes: the possible results of
\* SELECT id, title, content, category FROM recipes WHERE user_id = $1
GetRecipes(userid) ==
    { [i \in 1..Len(o) |-> ScanRecipe(o[i])] : o \in Orderings({r \in db : r.user_id = userid}) }

\* AddRecipeToDB: the table after the insert
AddRecipeToDB(userID, RecipeName, Recipe, RecipeCategory) ==
    db \cup { [id |-> nextId, user_id |-> userID, title |-> RecipeName,
               content |-> Recipe, category |-> RecipeCategory] }

\* a delete statement without the user_id condition
RemoveRecipeOfAnyUser(userID, recipeID) ==
    {r \in db : r.id # recipeID}

\* RemoveRecipeFromDB: delete from recipes where user_id = $1 and id = $2
RemoveRecipeFromDB(userID, recipeID) ==
    {r \in db : ~(r.user_id = userID /\ r.id = recipeID)}

\* the rows matched by UPDATE ... WHERE id = $4 AND user_id = $5
UpdateMatches(id, userID) == {r \in db : r.id = id /\ r.user_id = userID}

\* the table after UPDATE recipes SET title = $1, content = $2, category = $3
UpdateRecipe(id, userID, title, content, category) ==
    {r \in db : ~(r.id = id /\ r.user_id = userID)}
        \cup { [r EXCEPT !.title = title, !.content = content, !.category = category] :
                 r \in UpdateMatches(id, userID) }

\* the container after a successful UploadBuffer
PutBlob(account, path, content) ==
    [blobs EXCEPT ![account] =
        {b \in @ : b.path # path} \cup {[path |-> path, content |-> content]}]

\* addBlob: uploads unless the upload fails; the failure is logged and the
\* function returns nil in both cases
addBlob(account, path, content, uploaded) ==
    [err |-> FALSE,
     blobs |-> IF uploaded THEN PutBlob(account, path, content) ELSE blobs]

\* linkFormat of templateRecipesBlob
linkFormat(recipe) ==
    <<"- [">> \o recipe.Recipename \o <<"](/?recipe=">>
        \o ReplaceAll(recipe.Recipename, " ", "-") \o <<")\n">>

\* a switch without the "Brot" case: bread falls through to the default
sectionOfBreadAsMisc(category) ==
    CASE category = "Hauptgericht" -> "Main"
      [] category = "Vorspeise" -> "Starter"
      [] category = "Dessert" -> "Dessert"
      [] OTHER -> "Misc"

\* the switch of templateRecipesBlob: the section a category is listed under
sectionOf(category) ==
    CASE category = "Hauptgericht" -> "Main"
      [] category = "Brot" -> "Bread"
      [] category = "Vorspeise" -> "Starter"
      [] category = "Dessert" -> "Dessert"
      [] OTHER -> "Misc"

RECURSIVE recipesTemplate(_, _)
\* the links appended to one section's string by the loop over recipes
recipesTemplate(recipes, section) ==
    IF recipes = <<>> THEN <<>>
    ELSE (IF sectionOf(Head(recipes).Category) = section
          THEN linkFormat(Head(recipes)) ELSE <<>>)
            \o recipesTemplate(Tail(recipes), section)

\* combinedTemplate of templateRecipesBlob (the pictograph that starts each
\* section heading in the source is left out of the heading literals)
combinedTemplate(recipes) ==
    <<"# Rezepte\n\n">> \o <<"Hauptgerichte\n">> \o recipesTemplate(recipes, "Main")
        \o <<"\nVorspeisen\n">> \o recipesTemplate(recipes, "Starter")
        \o <<"\nDesserts\n">> \o recipesTemplate(recipes, "Dessert")
        \o <<"\nBrot\n">> \o recipesTemplate(recipes, "Bread")
        \o <<"\nSonstiges\n">> \o recipesTemplate(recipes, "Misc")

DbResult(ok) == [kind |-> IF ok THEN "ok" ELSE "err"]

\* templateRecipesBlob, first half: GetRecipes and the document built from it
templateRecipesBlob_query(errMsg) ==
    /\ pc = "index"
    /\ \E dbOk \in BOOLEAN :
        /\ calls' = Append(calls, Call("select", loc.userID, DbResult(dbOk)))
        /\ IF ~dbOk
           THEN Finish(Reply(500, errMsg)) /\ UNCHANGED loc
           ELSE /\ \E recipes \in GetRecipes(loc.userID) :
                     loc' = [loc EXCEPT !.doc = combinedTemplate(recipes)]
                /\ pc' = "publish"
                /\ UNCHANGED resp
    /\ UNCHANGED <<served, route, req, users, db, nextId, blobs, globals>>

\* templateRecipesBlob, second half: addBlob(storageAccountName, "recipes.md", ...),
\* then the rest of the calling handler
templateRecipesBlob_upload(errMsg, success) ==
    /\ pc = "publish"
    /\ \E uploaded \in BOOLEAN :
        LET r == addBlob(loc.account, <<"recipes.md">>, loc.doc, uploaded)
        IN  /\ calls' = Append(calls, Call("upload", <<"recipes.md">>, DbResult(uploaded)))
            /\ blobs' = r.blobs
            /\ IF r.err THEN Finish(Reply(500, errMsg)) ELSE Finish(success)
    /\ UNCHANGED <<served, route, req, loc, users, db, nextId, globals>>

-----------------------------------------------------------------------------
(* Route /api/v1/add-recipe: HandleAddRecipe *)

\* a well-formed body
AddBody(name, recipe, category) ==
    [ok |-> TRUE, Recipename |-> name, Recipe |-> recipe, RecipeCategory |-> category]

AnyTitle == CHOOSE t \in Titles : TRUE
AnyContent == CHOOSE c \in Contents : TRUE

\* the add-recipe requests: every well-formed one of the first user, one of
\* the second user, and one request for each way of being rejected
AddRequests ==
    {[method |-> "POST", oauth |-> "oid-1", body |-> AddBody(n, r, c)] :
        n \in Titles, r \in Contents, c \in SuppliedCategories}
    \cup {[method |-> "POST", oauth |-> "oid-2", body |-> AddBody(AnyTitle, AnyContent, "Brot")],
          [method |-> "GET", oauth |-> "oid-1", body |-> AddBody(AnyTitle, AnyContent, "")],
          [method |-> "POST", oauth |-> "oid-1",
           body |-> [ok |-> FALSE, Recipename |-> <<>>, Recipe |-> <<>>, RecipeCategory |-> ""]],
          [method |-> "POST", oauth |-> "oid-1", body |-> AddBody(<<>>, AnyContent, "")],
          [method |-> "POST", oauth |-> "oid-1", body |-> AddBody(AnyTitle, <<>>, "Brot")],
          [method |-> "POST", oauth |-> "oid-9", body |-> AddBody(AnyTitle, AnyContent, "Brot")]}

RecvAddRecipe ==
    /\ nextId <= MaxId
    /\ \E r \in AddRequests : Receive("add", r, "decode")

\* a decode step that asks the LLM for the category whatever the caller sent
HandleAddRecipe_decodeAlwaysDerive ==
    /\ pc = "decode"
    /\ route = "add"
    /\ IF req.method # "POST"
       THEN Finish(Reply(405, "Invalid request method"))
       ELSE IF ~req.body.ok
       THEN Finish(Reply(400, "Invalid JSON payload"))
       ELSE IF req.body.Recipename = <<>> \/ req.body.Recipe = <<>>
       THEN Finish(Reply(400, "Missing recipename or recipe"))
       ELSE pc' = "category" /\ UNCHANGED resp
    /\ UNCHANGED <<served, route, req, loc, calls>>
    /\ StoreUnchanged

\* method check, JSON decoding, required fields, caller-supplied category
HandleAddRecipe_decode ==
    /\ pc = "decode"
    /\ route = "add"
    /\ IF req.method # "POST"
       THEN Finish(Reply(405, "Invalid request method")) /\ UNCHANGED loc
       ELSE IF ~req.body.ok
       THEN Finish(Reply(400, "Invalid JSON payload")) /\ UNCHANGED loc
       ELSE IF req.body.Recipename = <<>> \/ req.body.Recipe = <<>>
       THEN Finish(Reply(400, "Missing recipename or recipe")) /\ UNCHANGED loc
       ELSE IF req.body.RecipeCategory = ""
       THEN pc' = "category" /\ UNCHANGED <<resp, loc>>
       ELSE /\ loc' = [loc EXCEPT !.category = req.body.RecipeCategory]
            /\ pc' = "getuser"
            /\ UNCHANGED resp
    /\ UNCHANGED <<served, route, req, calls>>
    /\ StoreUnchanged

\* req.RecipeCategory = goopenAIgenerateRecipeCategory(req.Recipe); the LLM
\* answers with one of texts
HandleAddRecipe_category(texts) ==
    /\ pc = "category"
    /\ route = "add"
    /\ \E out \in Outcomes(texts, <<>>) :
        LET c == goopenAIgenerateRecipeCategory(out)
        IN  /\ calls' = Append(calls, Call("category", categoryMessages(req.body.Recipe), out))
            /\ IF c.panic
               THEN Panics /\ UNCHANGED loc
               ELSE /\ loc' = [loc EXCEPT !.category = c.value]
                    /\ pc' = "getuser"
                    /\ UNCHANGED resp
    /\ UNCHANGED <<served, route, req>>
    /\ StoreUnchanged

\* GetUserInformation(oauthID)
HandleAddRecipe_getuser ==
    /\ pc = "getuser"
    /\ route = "add"
    /\ \E dbOk \in BOOLEAN :
        LET u == GetUserInformation(req.oauth, dbOk)
        IN  /\ calls' = Append(calls, Call("getuser", req.oauth, DbResult(~u.err)))
            /\ IF u.err
               THEN Finish(Reply(500, "Error getting user ID")) /\ UNCHANGED loc
               ELSE /\ loc' = [loc EXCEPT !.userID = u.userID, !.account = u.subdomain]
                    /\ pc' = "insert"
                    /\ UNCHANGED resp
    /\ UNCHANGED <<served, route, req>>
    /\ StoreUnchanged

\* AddRecipeToDB(userID, req.Recipename, req.Recipe, req.RecipeCategory)
HandleAddRecipe_insert ==
    /\ pc = "insert"
    /\ \E dbOk \in BOOLEAN :
        /\ calls' = Append(calls, Call("insert", req.body.Recipename, DbResult(dbOk)))
        /\ IF dbOk
           THEN /\ db' = AddRecipeToDB(loc.userID, req.body.Recipename, req.body.Recipe, loc.category)
                /\ nextId' = nextId + 1
                /\ pc' = "blob"
                /\ UNCHANGED resp
           ELSE /\ Finish(Reply(500, "Error adding recipe"))
                /\ UNCHANGED <<db, nextId>>
    /\ UNCHANGED <<served, route, req, loc, users, blobs, globals>>

\* addBlob(storageaccount, recipePath, req.Recipe)
HandleAddRecipe_blob ==
    /\ pc = "blob"
    /\ route = "add"
    /\ \E uploaded \in BOOLEAN :
        LET path == recipePath(req.body.Recipename)
            r == addBlob(loc.account, path, req.body.Recipe, uploaded)
        IN  /\ calls' = Append(calls, Call("upload", path, DbResult(uploaded)))
            /\ blobs' = r.blobs
            /\ IF r.err
               THEN Finish(Reply(500, "Failed to update recipe"))
               ELSE pc' = "index" /\ UNCHANGED resp
    /\ UNCHANGED <<served, route, req, loc, users, db, nextId, globals>>

\* templateRecipesBlob(storageaccount, userID) and the success response
HandleAddRecipe_index ==
    route = "add" /\ templateRecipesBlob_query("Failed to template recipes")

HandleAddRecipe_publish ==
    /\ route = "add"
    /\ templateRecipesBlob_upload("Failed to template recipes",
                                  Reply(200, "Recipe added successfully!"))

-----------------------------------------------------------------------------
(* Route DELETE /api/v1/delete-recipe: HandleDeleteRecipe *)

\* body decoded into map[string]int: not JSON, no key recipeID, or a number
DeleteBody(id) == [ok |-> TRUE, has |-> TRUE, recipeID |-> id]

DeleteRequests ==
    {[method |-> "DELETE", oauth |-> o, body |-> DeleteBody(id)] :
        o \in {"oid-1", "oid-2"}, id \in 1..MaxId}
    \cup {[method |-> "DELETE", oauth |-> "oid-1", body |-> DeleteBody(0)],
          [method |-> "DELETE", oauth |-> "oid-1",
           body |-> [ok |-> TRUE, has |-> FALSE, recipeID |-> 0]],
          [method |-> "DELETE", oauth |-> "oid-1",
           body |-> [ok |-> FALSE, has |-> FALSE, recipeID |-> 0]],
          [method |-> "DELETE", oauth |-> "oid-9", body |-> DeleteBody(1)]}

RecvDeleteRecipe ==
    /\ \E r \in DeleteRequests : Receive("delete", r, "getuser")

\* GetUserInformation(oauthID)
HandleDeleteRecipe_getuser ==
    /\ pc = "getuser"
    /\ route = "delete"
    /\ \E dbOk \in BOOLEAN :
        LET u == GetUserInformation(req.oauth, dbOk)
        IN  /\ calls' = Append(calls, Call("getuser", req.oauth, DbResult(~u.err)))
            /\ IF u.err
               THEN Finish(Reply(500, "Error getting user ID")) /\ UNCHANGED loc
               ELSE /\ loc' = [loc EXCEPT !.userID = u.userID, !.account = u.subdomain]
                    /\ pc' = "decode"
                    /\ UNCHANGED resp
    /\ UNCHANGED <<served, route, req>>
    /\ StoreUnchanged

\* JSON decoding and the recipeID check
HandleDeleteRecipe_decode ==
    /\ pc = "decode"
    /\ route = "delete"
    /\ IF ~req.body.ok
       THEN Finish(Reply(400, "Invalid JSON payload"))
       ELSE IF ~req.body.has \/ req.body.recipeID = 0
       THEN Finish(Reply(400, "Missing or invalid recipeID"))
       ELSE pc' = "delete" /\ UNCHANGED resp
    /\ UNCHANGED <<served, route, req, loc, calls>>
    /\ StoreUnchanged

\* RemoveRecipeFromDB(userID, recipeID)
HandleDeleteRecipe_remove ==
    /\ pc = "delete"
    /\ \E dbOk \in BOOLEAN :
        /\ calls' = Append(calls, Call("delete", req.body.recipeID, DbResult(dbOk)))
        /\ IF dbOk
           THEN /\ db' = RemoveRecipeFromDB(loc.userID, req.body.recipeID)
                /\ pc' = "index"
                /\ UNCHANGED resp
           ELSE /\ Finish(Reply(500, "Error removing recipe"))
                /\ UNCHANGED db
    /\ UNCHANGED <<served, route, req, loc, users, nextId, blobs, globals>>

\* templateRecipesBlob(storageAccountName, userID) and w.WriteHeader(200)
HandleDeleteRecipe_index ==
    route = "delete" /\ templateRecipesBlob_query("Error updating recipe template")

HandleDeleteRecipe_publish ==
    /\ route = "delete"
    /\ templateRecipesBlob_upload("Error updating recipe template", Reply(200, ""))

-----------------------------------------------------------------------------
(* Route PATCH /api/v1/update-recipe: HandleUpdateRecipe *)

UpdateBody(id, name, recipe, category) ==
    [ok |-> TRUE, ID |-> id, Recipename |-> name, Recipe |-> recipe, RecipeCategory |-> category]

UpdateRequests ==
    {[method |-> "PATCH", oauth |-> "oid-1", body |-> UpdateBody(id, n, r, c)] :
        id \in 1..MaxId, n \in Titles, r \in Contents, c \in SuppliedCategories}
    \cup {[method |-> "PATCH", oauth |-> "oid-2", body |-> UpdateBody(id, AnyTitle, AnyContent, "")] :
            id \in 1..MaxId}
    \cup {[method |-> "PATCH", oauth |-> "oid-1", body |-> UpdateBody(0, AnyTitle, AnyContent, "")],
          [method |-> "PATCH", oauth |-> "oid-1", body |-> UpdateBody(1, <<>>, AnyContent, "")],
          [method |-> "PATCH", oauth |-> "oid-1", body |-> UpdateBody(1, AnyTitle, <<>>, "")],
          [method |-> "PATCH", oauth |-> "oid-1",
           body |-> [ok |-> FALSE, ID |-> 0, Recipename |-> <<>>, Recipe |-> <<>>,
                     RecipeCategory |-> ""]],
          [method |-> "PATCH", oauth |-> "oid-9", body |-> UpdateBody(1, AnyTitle, AnyContent, "")]}

RecvUpdateRecipe ==
    /\ \E r \in UpdateRequests : Receive("update", r, "getuser")

\* GetUserInformation(oauthID)
HandleUpdateRecipe_getuser ==
    /\ pc = "getuser"
    /\ route = "update"
    /\ \E dbOk \in BOOLEAN :
        LET u == GetUserInformation(req.oauth, dbOk)
        IN  /\ calls' = Append(calls, Call("getuser", req.oauth, DbResult(~u.err)))
            /\ IF u.err
               THEN Finish(Reply(500, "Error getting user ID")) /\ UNCHANGED loc
               ELSE /\ loc' = [loc EXCEPT !.userID = u.userID, !.account = u.subdomain]
                    /\ pc' = "decode"
                    /\ UNCHANGED resp
    /\ UNCHANGED <<served, route, req>>
    /\ StoreUnchanged

\* JSON decoding and the required fields
HandleUpdateRecipe_decode ==
    /\ pc = "decode"
    /\ route = "update"
    /\ IF ~req.body.ok
       THEN Finish(Reply(400, "Invalid JSON payload"))
       ELSE IF req.body.ID = 0 \/ req.body.Recipename = <<>> \/ req.body.Recipe = <<>>
       THEN Finish(Reply(400, "Missing required fields"))
       ELSE pc' = "update" /\ UNCHANGED resp
    /\ UNCHANGED <<served, route, req, loc, calls>>
    /\ StoreUnchanged

\* UPDATE recipes SET ... WHERE id = $4 AND user_id = $5 RETURNING id
HandleUpdateRecipe_update ==
    /\ pc = "update"
    /\ \E dbOk \in BOOLEAN :
        /\ calls' = Append(calls, Call("update", req.body.ID, DbResult(dbOk)))
        /\ IF ~dbOk
           THEN Finish(Reply(500, "Error updating recipe")) /\ UNCHANGED db
           ELSE IF UpdateMatches(req.body.ID, loc.userID) = {}
           THEN Finish(Reply(404, "Recipe not found or unauthorized")) /\ UNCHANGED db
           ELSE /\ db' = UpdateRecipe(req.body.ID, loc.userID, req.body.Recipename,
                                      req.body.Recipe, req.body.RecipeCategory)
                /\ pc' = "blob"
                /\ UNCHANGED resp
    /\ UNCHANGED <<served, route, req, loc, users, nextId, blobs, globals>>

\* addBlob(storageAccountName, recipePath, updateReq.Recipe)
HandleUpdateRecipe_blob ==
    /\ pc = "blob"
    /\ route = "update"
    /\ \E uploaded \in BOOLEAN :
        LET path == recipePath(req.body.Recipename)
            r == addBlob(loc.account, path, req.body.Recipe, uploaded)
        IN  /\ calls' = Append(calls, Call("upload", path, DbResult(uploaded)))
            /\ blobs' = r.blobs
            /\ IF r.err
               THEN Finish(Reply(500, "Failed to update recipe in storage"))
               ELSE pc' = "index" /\ UNCHANGED resp
    /\ UNCHANGED <<served, route, req, loc, users, db, nextId, globals>>

\* templateRecipesBlob(storageAccountName, userID) and the JSON success message
HandleUpdateRecipe_index ==
    route = "update" /\ templateRecipesBlob_query("Failed to update recipe template")

HandleUpdateRecipe_publish ==
    /\ route = "update"
    /\ templateRecipesBlob_upload("Failed to update recipe template",
                                  Reply(200, "Recipe updated successfully"))

-----------------------------------------------------------------------------
(* Route GET /api/v1/get-recipes: HandleGetRecipes *)

RecvGetRecipes ==
    /\ \E o \in OAuthIds : Receive("get", [method |-> "GET", oauth |-> o], "getuser")

\* GetUserInformation(oauthID)
HandleGetRecipes_getuser ==
    /\ pc = "getuser"
    /\ route = "get"
    /\ \E dbOk \in BOOLEAN :
        LET u == GetUserInformation(req.oauth, dbOk)
        IN  /\ calls' = Append(calls, Call("getuser", req.oauth, DbResult(~u.err)))
            /\ IF u.err
               THEN Finish(Reply(500, "Error getting user ID")) /\ UNCHANGED loc
               ELSE /\ loc' = [loc EXCEPT !.userID = u.userID, !.account = u.subdomain]
                    /\ pc' = "select"
                    /\ UNCHANGED resp
    /\ UNCHANGED <<served, route, req>>
    /\ StoreUnchanged

\* GetRecipes(userID) and the JSON encoding of its result
HandleGetRecipes_select ==
    /\ pc = "select"
    /\ \E dbOk \in BOOLEAN :
        /\ calls' = Append(calls, Call("select", loc.userID, DbResult(dbOk)))
        /\ IF ~dbOk
           THEN Finish(Reply(500, "Error getting recipes"))
           ELSE \E recipes \in GetRecipes(loc.userID) :
                    Finish([Reply(200, "") EXCEPT !.recipes = recipes])
    /\ UNCHANGED <<served, route, req, loc>>
    /\ StoreUnchanged

-----------------------------------------------------------------------------
(* Specifications *)

NoRequest == [method |-> "", oauth |-> "", body |-> [ok |-> FALSE]]

\* the empty index document that a login publishes for a new user
InitBlobs ==
    [a \in Accounts |-> {[path |-> <<"recipes.md">>, content |-> combinedTemplate(<<>>)]}]

Init ==
    /\ route = "none"
    /\ req = NoRequest
    /\ pc = "idle"
    /\ loc = Loc0
    /\ calls = <<>>
    /\ resp = NoResp
    /\ served = 0
    /\ users = InitUsers
    /\ db = {}
    /\ nextId = 1
    /\ blobs = InitBlobs
    /\ globals = NoGlobals

\* the generation routes with a judge gate
Next ==
    \/ RecvGenerateByDescription
    \/ HandlerJudgeMiddleware
    \/ HandleGenerateByDescription_decode
    \/ HandleGenerateByDescription_generate
    \/ HandleGenerateByDescription_name
    \/ RecvGenerateRecipeByVoice
    \/ HandleGenerateRecipeByVoice_form
    \/ HandleGenerateRecipeByVoice_transcribe
    \/ HandleGenerateRecipeByVoice_judge
    \/ HandleGenerateRecipeByVoice_generate
    \/ HandleGenerateRecipeByVoice_name

Spec == Init /\ [][Next]_vars

\* the persistence routes
NextStore ==
    \/ RecvAddRecipe
    \/ HandleAddRecipe_decode
    \/ HandleAddRecipe_category(CategoryAnswers)
    \/ HandleAddRecipe_getuser
    \/ HandleAddRecipe_insert
    \/ HandleAddRecipe_blob
    \/ HandleAddRecipe_index
    \/ HandleAddRecipe_publish
    \/ RecvDeleteRecipe
    \/ HandleDeleteRecipe_getuser
    \/ HandleDeleteRecipe_decode
    \/ HandleDeleteRecipe_remove
    \/ HandleDeleteRecipe_index
    \/ HandleDeleteRecipe_publish
    \/ RecvUpdateRecipe
    \/ HandleUpdateRecipe_getuser
    \/ HandleUpdateRecipe_decode
    \/ HandleUpdateRecipe_update
    \/ HandleUpdateRecipe_blob
    \/ HandleUpdateRecipe_index
    \/ HandleUpdateRecipe_publish
    \/ RecvGetRecipes
    \/ HandleGetRecipes_getuser
    \/ HandleGetRecipes_select

SpecStore == Init /\ [][NextStore]_vars


-----------------------------------------------------------------------------
(* The category derivation over a larger set of LLM answers *)

\* an LLM answer to the category question is a concatenation of at most
\* MaxCatParts pieces
MaxCatParts == 3

CategoryPieces ==
    { Chars("Hauptgericht"), Chars("Vorspeise"), Chars("Brot"), Chars("Dessert"),
      <<"S", "o", "n", "s", "t", "i", "g", "e", "s">>,
      <<"b", "r", "o", "t">>,
      <<"H", "a", "u", "p", "t">>,
      <<"I", "'", "d", " ", "s", "a", "y", " ">>,
      <<" ", "w", "o", "r", "k", "s", " ", "w", "e", "l", "l">> }

CategoryTexts == Concats(CategoryPieces, MaxCatParts)

\* an add-recipe request without a category, decoded, about to ask the LLM
InitCategory ==
    /\ route = "add"
    /\ req \in {r \in AddRequests :
                  /\ r.method = "POST"
                  /\ r.body.ok
                  /\ r.body.Recipename # <<>>
                  /\ r.body.Recipe # <<>>
                  /\ r.body.RecipeCategory = ""}
    /\ pc = "category"
    /\ loc = Loc0
    /\ calls = <<>>
    /\ resp = NoResp
    /\ served = 1
    /\ users = InitUsers
    /\ db = {}
    /\ nextId = 1
    /\ blobs = InitBlobs
    /\ globals = NoGlobals

NextCategory == HandleAddRecipe_category(CategoryTexts)

SpecCategory == InitCategory /\ [][NextCategory]_vars

-----------------------------------------------------------------------------
(* Properties of the judge gate *)

\* the judge calls, the generation calls and the naming calls of the request
\* in flight
CallsOf(fns) == {i \in 1..Len(calls) : calls[i].fn \in fns}

\* text r contains "yes" in some mix of upper and lower case
ContainsYesAnyCase(r) ==
    \E i \in 1..(Len(r) - 2) :
        /\ r[i] \in {"y", "Y"}
        /\ r[i + 1] \in {"e", "E"}
        /\ r[i + 2] \in {"s", "S"}

\* C1: whenever the LLM answered the judge's question with a text r, the
\* verdict of the gate (isRecipeRelated on by-voice, HandlerIsRecipeRelated on
\* by-description) is true if and only if r contains "yes" compared
\* case-insensitively.
JudgeVerdictIsCaseInsensitiveYes ==
    \A i \in CallsOf({"judge"}) :
        (loc.judged /\ calls[i].out.kind = "ok")
            => (loc.verdict <=> ContainsYesAnyCase(calls[i].out.text))

\* C2: whenever the judge's LLM call failed with a provider error, the verdict
\* is false, the request has been answered with status 400, and the request
\* has made no generation call and no naming call.
FailClosedJudge ==
    \A i \in CallsOf({"judge"}) :
        calls[i].out.kind = "err"
            => /\ ~loc.verdict
               /\ pc = "done"
               /\ resp.status = 400
               /\ CallsOf({"generate", "name"}) = {}

\* a by-voice request rejected after a provider error of the judge call
FailClosedJudgeVoiceWitness ==
    /\ route = "by-voice"
    /\ pc = "done"
    /\ resp = Reply(400, "Input rejected by LLM judge")
    /\ \E i \in CallsOf({"judge"}) : calls[i].out.kind = "err"

\* C3: on both judged routes a generation or naming call is made only after a
\* judge call of the same request that returned true; when the verdict is
\* false the request is answered with status 400 and has made no generation
\* call and no naming call.
JudgeBeforeGeneration ==
    /\ \A i \in CallsOf({"generate", "name"}) :
          /\ loc.judged
          /\ loc.verdict
          /\ \E j \in CallsOf({"judge"}) : j < i
    /\ (loc.judged /\ ~loc.verdict)
          => /\ pc = "done"
             /\ resp.status = 400
             /\ CallsOf({"generate", "name"}) = {}

\* a by-description request that passed the judge and then made its
\* generation call
JudgeBeforeGenerationWitness ==
    /\ route = "by-description"
    /\ loc.judged
    /\ loc.verdict
    /\ Len(calls) >= 2
    /\ calls[1].fn = "judge"
    /\ calls[2].fn = "generate"

-----------------------------------------------------------------------------
(* Properties of the prompt builder *)

\* the description and the locale flag that the handler of the request in
\* flight passes to openAIgenerateRecipe
GivenDescription == IF route = "by-voice" THEN loc.transcript ELSE req.body.RecipeDescription
GivenLocale == IF route = "by-voice" THEN req.isGerman = "true" ELSE req.body.IsGerman

\* C10: every generation call sends exactly two messages: a system message
\* holding the German format contract when isGerman is true and the English
\* one when it is false, and a user message holding the phrase of that locale
\* followed by the description and nothing else; for "tomato soup" and locale
\* false the user message is
\* "Generate a recipe for the following description: tomato soup".
DescriptionModePrompt ==
    \A i \in CallsOf({"generate"}) :
        LET m == calls[i].msgs
            d == GivenDescription
        IN  /\ Len(m) = 2
            /\ m[1].role = "system"
            /\ m[2].role = "user"
            /\ GivenLocale
                 => /\ m[1].content = germanSystemMessage
                    /\ m[2].content = "Erstelle ein Rezept für folgende Beschreibung: " \o d
            /\ ~GivenLocale
                 => /\ m[1].content = englishSystemMessage
                    /\ m[2].content = "Generate a recipe for the following description: " \o d
            /\ (~GivenLocale /\ d = "tomato soup")
                 => m[2].content = "Generate a recipe for the following description: tomato soup"

\* a generation call for "tomato soup" in the English locale
DescriptionModePromptWitness ==
    /\ route = "by-description"
    /\ req.body.RecipeDescription = "tomato soup"
    /\ ~req.body.IsGerman
    /\ CallsOf({"generate"}) # {}

-----------------------------------------------------------------------------
(* Properties of the category derivation *)

\* label occurs in text r: r = u \o label \o v for some u and v
Occurs(label, r) ==
    \E n \in 0..Len(r) :
        /\ n + Len(label) <= Len(r)
        /\ \A k \in 1..Len(label) : r[n + k] = label[k]

\* the first label, in the order Hauptgericht, Vorspeise, Brot, Dessert, that
\* occurs in r, and Sonstiges when none occurs
FirstLabelIn(r) ==
    IF Occurs(<<"H", "a", "u", "p", "t", "g", "e", "r", "i", "c", "h", "t">>, r) THEN "Hauptgericht"
    ELSE IF Occurs(<<"V", "o", "r", "s", "p", "e", "i", "s", "e">>, r) THEN "Vorspeise"
    ELSE IF Occurs(<<"B", "r", "o", "t">>, r) THEN "Brot"
    ELSE IF Occurs(<<"D", "e", "s", "s", "e", "r", "t">>, r) THEN "Dessert"
    ELSE "Sonstiges"

IdSayDessertWorksWell ==
    << "I", "'", "d", " ", "s", "a", "y", " ", "D", "e", "s", "s", "e", "r", "t",
       " ", "w", "o", "r", "k", "s", " ", "w", "e", "l", "l" >>

\* C4: for every answer r of the LLM, the category that
\* goopenAIgenerateRecipeCategory returns is the first label, in the order
\* Hauptgericht, Vorspeise, Brot, Dessert, that occurs in r as a substring, and
\* Sonstiges when none occurs; "I'd say Dessert works well" gives Dessert, and
\* an answer that contains both Brot and Hauptgericht gives Hauptgericht.
CategoryDerivation ==
    \A i \in CallsOf({"category"}) :
        LET r == calls[i].out.text
        IN  calls[i].out.kind = "ok"
              => /\ loc.category = FirstLabelIn(r)
                 /\ r = IdSayDessertWorksWell => loc.category = "Dessert"
                 /\ (Occurs(Chars("Brot"), r) /\ Occurs(Chars("Hauptgericht"), r))
                      => loc.category = "Hauptgericht"

\* the answer names Brot before Hauptgericht, inside a sentence
CategoryDerivationWitness ==
    /\ pc = "getuser"
    /\ \E i \in CallsOf({"category"}) :
          /\ calls[i].out.kind = "ok"
          /\ calls[i].out.text =
               Chars("Brot") \o Chars("Hauptgericht")
                 \o <<" ", "w", "o", "r", "k", "s", " ", "w", "e", "l", "l">>
    /\ loc.category = "Hauptgericht"

\* the closed set of category labels
ClosedCategorySet == {"Hauptgericht", "Vorspeise", "Brot", "Dessert", "Sonstiges"}

\* the row that the add-recipe request in flight has inserted
InsertedRows ==
    IF route = "add" /\ \E i \in CallsOf({"insert"}) : calls[i].out.kind = "ok"
    THEN {r \in db : r.id = nextId - 1}
    ELSE {}

\* C5: whatever the outcome of the LLM call, the value that
\* goopenAIgenerateRecipeCategory returned to add-recipe is in the closed
\* label set, and so is the category of the row that add-recipe persists for
\* a request that supplied no category.
ClosedCategorySetPersisted ==
    (route = "add" /\ req.body.ok /\ req.body.RecipeCategory = "")
        => /\ (CallsOf({"category"}) # {} /\ pc # "panicked")
                => loc.category \in ClosedCategorySet
           /\ \A r \in InsertedRows : r.category \in ClosedCategorySet

-----------------------------------------------------------------------------
(* Properties of the persistence routes *)

\* the writes of add-recipe and update-recipe: the database statement and the
\* two uploads
FailedWrites ==
    {i \in CallsOf({"insert", "update", "upload"}) : calls[i].out.kind = "err"}

\* C6: an add-recipe or update-recipe request whose database write, mirror
\* upload or index upload failed is answered with status 500, never with a
\* success.
PersistenceErrorsSurfaced ==
    (route \in {"add", "update"} /\ pc = "done" /\ FailedWrites # {})
        => resp.status = 500

\* the steps of a request that failed
FailedCalls == {i \in 1..Len(calls) : calls[i].out.kind = "err"}

\* C7: once a step of a request has failed, no later step of that request is
\* executed and the request ends with an error response; a failed
\* categorization call in add-recipe keeps the recipe from being persisted.
ShortCircuitOnFailure ==
    /\ \A i \in FailedCalls :
          /\ i = Len(calls)
          /\ pc = "done"
          /\ resp.status >= 400
    /\ (route = "add" /\ \E i \in CallsOf({"category"}) : calls[i].out.kind = "err")
          => CallsOf({"insert"}) = {}

\* the user row of the requester
Requester == {u \in users : u.oauth_id = req.oauth}

\* the index document of a user is up to date: blob recipes.md of the user's
\* account is the categorized index of the user's current rows
IndexIsCurrent(u) ==
    \E recipes \in GetRecipes(u.id) :
        [path |-> <<"recipes.md">>, content |-> combinedTemplate(recipes)] \in blobs[u.subdomain]

\* the mirror of the recipe of the request holds the content of the request
MirrorIsWritten(u) ==
    [path |-> <<"recipes/">> \o ReplaceAll(req.body.Recipename, " ", "-") \o <<".md">>,
     content |-> req.body.Recipe] \in blobs[u.subdomain]

\* C8: when add-recipe, update-recipe or delete-recipe answers with success,
\* recipes.md of the requester holds the index regenerated from the
\* requester's current rows, and on add and update the mirror
\* recipes/<title with dashes>.md holds the recipe content.
IndexRegeneratedOnSuccess ==
    (route \in {"add", "update", "delete"} /\ pc = "done" /\ resp.status = 200)
        => \A u \in Requester :
              /\ IndexIsCurrent(u)
              /\ route \in {"add", "update"} => MirrorIsWritten(u)

-----------------------------------------------------------------------------
(* Properties of owner scoping *)

\* the ids of the requester in table users (none for an unknown caller)
RequesterIds == {u.id : u \in Requester}

\* the rows of the other users
RowsOfOthers(rows) == {r \in rows : r.user_id \notin RequesterIds}

\* the update-recipe request in flight names an id that does not exist or
\* that the requester does not own
UpdateOfForeignId ==
    /\ route = "update"
    /\ req.body.ok
    /\ ~\E r \in db : r.id = req.body.ID /\ r.user_id \in RequesterIds

\* a step of a get-recipes, update-recipe or delete-recipe request leaves the
\* rows of the other users as they are
OthersRowsUntouched ==
    route \in {"get", "update", "delete"} => RowsOfOthers(db') = RowsOfOthers(db)

\* a step of an update-recipe request for a foreign id changes no row and
\* writes no blob
ForeignUpdateChangesNothing ==
    UpdateOfForeignId => (db' = db /\ blobs' = blobs)

\* get-recipes returns rows of the requester only
OnlyOwnRowsReturned ==
    (route = "get" /\ pc = "done")
        => \A i \in 1..Len(resp.recipes) :
              \E r \in db : r.user_id \in RequesterIds /\ ScanRecipe(r) = resp.recipes[i]

\* an update-recipe for a foreign id makes no upload, and once its UPDATE
\* statement has run it is answered with status 404
ForeignUpdateAnswers404 ==
    UpdateOfForeignId
        => /\ CallsOf({"upload"}) = {}
           /\ (\E i \in CallsOf({"update"}) : calls[i].out.kind = "ok")
                => (pc = "done" /\ resp.status = 404)

\* C9 (as amended): no get-recipes, update-recipe or delete-recipe request of
\* a user returns, modifies or deletes a row of another user; an
\* update-recipe for an id that does not exist or that the requester does not
\* own changes no row and writes no blob, and it is answered with 404 once its
\* UPDATE statement has run (a request rejected before that is answered with
\* 400 or 500).
OwnerScoping ==
    /\ [](OnlyOwnRowsReturned /\ ForeignUpdateAnswers404)
    /\ [][OthersRowsUntouched /\ ForeignUpdateChangesNothing]_vars

\* user 1 asked to update a row of user 2 and got 404
OwnerScopingWitness ==
    /\ route = "update"
    /\ req.oauth = "oid-1"
    /\ \E r \in db : r.id = req.body.ID /\ r.user_id = 2
    /\ pc = "done"
    /\ resp.status = 404

\* C9 (as stated): every update-recipe of a known user for an id that does
\* not exist or that the requester does not own, none of whose database calls
\* failed, is answered with 404.
ForeignUpdateAlways404 ==
    (UpdateOfForeignId /\ Requester # {} /\ FailedCalls = {} /\ pc = "done")
        => resp.status = 404

-----------------------------------------------------------------------------
(* Route /api/v1/generate/by-link: HandleGenerateByLink *)

Links == {"", "https://example.org/soup"}

\* body of a by-link request: not JSON at all, or a JSON object
LinkBodies ==
    {[ok |-> FALSE, URL |-> "", IsGerman |-> FALSE]}
        \cup {[ok |-> TRUE, URL |-> u, IsGerman |-> g] : u \in Links, g \in BOOLEAN}

\* GetWebsite: the fetch fails, or returns the page (an empty page included)
WebsiteOutcomes ==
    {[kind |-> "err", text |-> ""]}
        \cup {[kind |-> "ok", text |-> t] : t \in {"", "<html>Tomatensuppe</html>"}}

\* a prompt builder that keeps the system instruction of the first request
\* it served and reuses it for the later ones
openAIgenerateRecipeLinkMessagesCached(Recipe, isGerman) ==
    IF isGerman \/ served > 1
    THEN << SystemMessage(germanSystemMessage),
            UserMessage("Ändere das Rezept in Markdown-Format: " \o Recipe) >>
    ELSE << SystemMessage(englishSystemMessage),
            UserMessage("Change to markdown format: " \o Recipe) >>

\* messages built by openAIgenerateRecipeLink
openAIgenerateRecipeLinkMessages(Recipe, isGerman) ==
    IF isGerman
    THEN << SystemMessage(germanSystemMessage),
            UserMessage("Ändere das Rezept in Markdown-Format: " \o Recipe) >>
    ELSE << SystemMessage(englishSystemMessage),
            UserMessage("Change to markdown format: " \o Recipe) >>

\* result of openAIgenerateRecipeLink for a provider outcome
openAIgenerateRecipeLink(out) == FirstChoice(out)

RecvGenerateByLink ==
    \E m \in Methods, b \in LinkBodies :
        Receive("by-link", [method |-> m, body |-> b], "link_decode")

\* method check, JSON decoding, required field
HandleGenerateByLink_decode ==
    /\ pc = "link_decode"
    /\ IF req.method # "POST"
       THEN Finish(Reply(405, "Invalid request method"))
       ELSE IF ~req.body.ok
       THEN Finish(Reply(400, "Invalid JSON payload"))
       ELSE IF req.body.URL = ""
       THEN Finish(Reply(400, "Missing link"))
       ELSE pc' = "link_fetch" /\ UNCHANGED resp
    /\ UNCHANGED <<served, route, req, loc, calls>>
    /\ StoreUnchanged

\* GenerateRecipeByLink: GetWebsite(URL)
GenerateRecipeByLink_fetch ==
    /\ pc = "link_fetch"
    /\ \E out \in WebsiteOutcomes :
        /\ calls' = Append(calls, Call("fetch", req.body.URL, out))
        /\ IF out.kind = "err"
           THEN Finish(Reply(500, "Error generating recipe")) /\ UNCHANGED loc
           ELSE /\ loc' = [loc EXCEPT !.transcript = out.text]
                /\ pc' = "link_reformat"
                /\ UNCHANGED resp
    /\ UNCHANGED <<served, route, req>>
    /\ StoreUnchanged

\* GenerateRecipeByLink: openAIgenerateRecipeLink(websitecontent, isGerman)
GenerateRecipeByLink_reformat ==
    /\ pc = "link_reformat"
    /\ \E out \in Outcomes(RecipeTexts, "") :
        LET r == openAIgenerateRecipeLink(out)
        IN  /\ calls' = Append(calls,
                  Call("reformat",
                       openAIgenerateRecipeLinkMessages(loc.transcript, req.body.IsGerman), out))
            /\ IF r.panic THEN Panics /\ UNCHANGED loc
               ELSE IF r.err
               THEN Finish(Reply(500, "Error generating recipe")) /\ UNCHANGED loc
               ELSE /\ loc' = [loc EXCEPT !.recipe = r.text]
                    /\ pc' = "link_name"
                    /\ UNCHANGED resp
    /\ UNCHANGED <<served, route, req>>
    /\ StoreUnchanged

\* GenerateRecipeByLink: openAIgenerateRecipeName, then the JSON response
GenerateRecipeByLink_name ==
    /\ pc = "link_name"
    /\ \E out \in Outcomes(NameTexts, "") :
        LET n == openAIgenerateRecipeName(out)
        IN  /\ calls' = Append(calls,
                  Call("name", openAIgenerateRecipeNameMessages(loc.recipe, req.body.IsGerman), out))
            /\ IF n.panic THEN Panics
               ELSE IF n.err
               THEN Finish(Reply(500, "Error generating recipe"))
               ELSE Finish(ReplyRecipe(n.text, loc.recipe, ""))
    /\ UNCHANGED <<served, route, req, loc>>
    /\ StoreUnchanged

-----------------------------------------------------------------------------
(* Route /api/v1/generate/by-image: HandleGenerateByImage *)

\* the argument of r.ParseMultipartForm(10 << 20), in bytes
maxMemory == 10 * 1048576

\* sizes of the uploaded image file, in bytes: 1 MB, and 1 byte over 10 MB
ImageSizes == {1048576, 10 * 1048576 + 1}

\* multipart form of a by-image request
ImageForm(method, formOk, hasImage, imageBytes, recipename, isGerman) ==
    [method |-> method, formOk |-> formOk, hasImage |-> hasImage, imageBytes |-> imageBytes,
     recipename |-> recipename, isGerman |-> isGerman]

\* the by-image requests: the parseable POST requests with an image, and one
\* request for each of the other ways of being rejected
ImageForms ==
    {ImageForm("POST", TRUE, TRUE, b, n, g) :
        b \in ImageSizes, n \in {"", "Omas Suppe"}, g \in {"true", "false", "", "ja"}}
    \cup {ImageForm("GET", TRUE, TRUE, 1048576, "", "true"),
          ImageForm("POST", FALSE, FALSE, 1048576, "", "true"),
          ImageForm("POST", TRUE, FALSE, 1048576, "", "true")}

\* r.ParseMultipartForm(maxMemory) of net/http: fails on a malformed body
\* only; file parts are kept in memory up to maxMemory bytes in total and the
\* rest is written to temporary files
ParseMultipartForm(form, limit) ==
    [err |-> ~form.formOk, inMemory |-> form.imageBytes <= limit]

\* messages built by goopenAIgenerateRecipeImage: one user message with a
\* text part and an image part
goopenAIgenerateRecipeImageMessages(RecipeBase64, isGerman) ==
    << [role |-> "user",
        parts |-> << IF isGerman THEN germanSystemMessage ELSE englishSystemMessage,
                     "data:image/jpeg;base64," \o RecipeBase64 >>] >>

\* result of goopenAIgenerateRecipeImage for a provider outcome
goopenAIgenerateRecipeImage(out) == FirstChoice(out)

RecvGenerateByImage ==
    \E f \in ImageForms : Receive("by-image", f, "image_form")

\* a form step that takes every value other than "true" for English
HandleGenerateByImage_formLenient ==
    /\ pc = "image_form"
    /\ IF req.method # "POST"
       THEN Finish(Reply(405, "Invalid request method")) /\ UNCHANGED loc
       ELSE IF ParseMultipartForm(req, maxMemory).err
       THEN Finish(Reply(400, "Failed to parse form data")) /\ UNCHANGED loc
       ELSE IF ~req.hasImage
       THEN Finish(Reply(400, "Failed to get the image file")) /\ UNCHANGED loc
       ELSE /\ loc' = [loc EXCEPT !.isGerman = (req.isGerman = "true")]
            /\ pc' = "image_encode"
            /\ UNCHANGED resp
    /\ UNCHANGED <<served, route, req, calls>>
    /\ StoreUnchanged

\* method check, form parsing, file lookup, form values
HandleGenerateByImage_form ==
    /\ pc = "image_form"
    /\ IF req.method # "POST"
       THEN Finish(Reply(405, "Invalid request method")) /\ UNCHANGED loc
       ELSE IF ParseMultipartForm(req, maxMemory).err
       THEN Finish(Reply(400, "Failed to parse form data")) /\ UNCHANGED loc
       ELSE IF ~req.hasImage
       THEN Finish(Reply(400, "Failed to get the image file")) /\ UNCHANGED loc
       ELSE IF req.isGerman = ""
       THEN Finish(Reply(400, "isGerman cannot be empty")) /\ UNCHANGED loc
       ELSE IF req.isGerman \notin {"true", "false"}
       THEN Finish(Reply(400, "isGerman must be 'true' or 'false'")) /\ UNCHANGED loc
       ELSE /\ loc' = [loc EXCEPT !.isGerman = (req.isGerman = "true")]
            /\ pc' = "image_encode"
            /\ UNCHANGED resp
    /\ UNCHANGED <<served, route, req, calls>>
    /\ StoreUnchanged

\* EncodeImageToBase64(file): reading the file fails or gives its encoding
HandleGenerateByImage_encode ==
    /\ pc = "image_encode"
    /\ \E readOk \in BOOLEAN :
        /\ calls' = Append(calls, Call("encode", req.imageBytes, DbResult(readOk)))
        /\ IF ~readOk
           THEN Finish(Reply(500, "Failed to encode image to base64")) /\ UNCHANGED loc
           ELSE /\ loc' = [loc EXCEPT !.transcript = "aW1hZ2U="]
                /\ pc' = "image_generate"
                /\ UNCHANGED resp
    /\ UNCHANGED <<served, route, req>>
    /\ StoreUnchanged

\* GenerateRecipeByImage(base64Data, isGerman); a caller-supplied name ends
\* the request here
HandleGenerateByImage_generate ==
    /\ pc = "image_generate"
    /\ \E out \in Outcomes(RecipeTexts, "") :
        LET r == goopenAIgenerateRecipeImage(out)
        IN  /\ calls' = Append(calls,
                  Call("image", goopenAIgenerateRecipeImageMessages(loc.transcript, loc.isGerman), out))
            /\ IF r.panic THEN Panics /\ UNCHANGED loc
               ELSE IF r.err
               THEN Finish(Reply(500, "Failed to generate recipe")) /\ UNCHANGED loc
               ELSE /\ loc' = [loc EXCEPT !.recipe = r.text]
                    /\ IF req.recipename # ""
                       THEN Finish(ReplyRecipe(req.recipename, r.text, ""))
                       ELSE pc' = "image_name" /\ UNCHANGED resp
    /\ UNCHANGED <<served, route, req>>
    /\ StoreUnchanged

\* openAIgenerateRecipeName for a request without a name, then the response
HandleGenerateByImage_name ==
    /\ pc = "image_name"
    /\ \E out \in Outcomes(NameTexts, "") :
        LET n == openAIgenerateRecipeName(out)
        IN  /\ calls' = Append(calls,
                  Call("name", openAIgenerateRecipeNameMessages(loc.recipe, loc.isGerman), out))
            /\ IF n.panic THEN Panics
               ELSE IF n.err
               THEN Finish(Reply(500, "Error generating recipe"))
               ELSE Finish(ReplyRecipe(n.text, loc.recipe, ""))
    /\ UNCHANGED <<served, route, req, loc>>
    /\ StoreUnchanged

-----------------------------------------------------------------------------
(* Route POST /api/v1/update-recipe: HandleReprompt *)

\* body of a change-prompt request: not JSON at all, or a JSON object
RepromptBodies ==
    {[ok |-> FALSE, Recipe |-> "", ChangePrompt |-> ""]}
        \cup {[ok |-> TRUE, Recipe |-> r, ChangePrompt |-> p] :
                r \in {"", "# Tomato Soup\n"}, p \in {"", "make it vegan"}}

\* the single text part of the message built by goopenaiUpdateRecipe
goopenaiUpdateRecipeMessages(Recipe, Prompt) ==
    << [role |-> "user",
        parts |-> << "The user requested that you change the following recipe: " \o
                     Recipe \o " according to the following prompt: " \o Prompt \o
                     " keep the recipe in the same format and language" \o
                     " only respond with the recipe and nothing else" >>] >>

\* result of goopenaiUpdateRecipe for a provider outcome
goopenaiUpdateRecipe(out) == FirstChoice(out)

RecvReprompt ==
    \E m \in Methods, b \in RepromptBodies :
        Receive("reprompt", [method |-> m, body |-> b], "reprompt_decode")

\* method check and JSON decoding
HandleReprompt_decode ==
    /\ pc = "reprompt_decode"
    /\ IF req.method # "POST"
       THEN Finish(Reply(405, "Invalid request method"))
       ELSE IF ~req.body.ok
       THEN Finish(Reply(400, "Invalid JSON payload"))
       ELSE pc' = "reprompt_update" /\ UNCHANGED resp
    /\ UNCHANGED <<served, route, req, loc, calls>>
    /\ StoreUnchanged

\* goopenaiUpdateRecipe(req.Recipe, req.ChangePrompt), then the JSON response
HandleReprompt_update ==
    /\ pc = "reprompt_update"
    /\ \E out \in Outcomes(RecipeTexts, "") :
        LET r == goopenaiUpdateRecipe(out)
        IN  /\ calls' = Append(calls,
                  Call("reprompt",
                       goopenaiUpdateRecipeMessages(req.body.Recipe, req.body.ChangePrompt), out))
            /\ IF r.panic THEN Panics
               ELSE IF r.err
               THEN Finish(Reply(500, "Error generating recipe"))
               ELSE Finish(ReplyRecipe("", r.text, ""))
    /\ UNCHANGED <<served, route, req, loc>>
    /\ StoreUnchanged

-----------------------------------------------------------------------------
(* All generation routes of the program *)

NextGenerate ==
    \/ RecvGenerateByDescription
    \/ HandlerJudgeMiddleware
    \/ HandleGenerateByDescription_decode
    \/ HandleGenerateByDescription_generate
    \/ HandleGenerateByDescription_name
    \/ RecvGenerateRecipeByVoice
    \/ HandleGenerateRecipeByVoice_form
    \/ HandleGenerateRecipeByVoice_transcribe
    \/ HandleGenerateRecipeByVoice_judge
    \/ HandleGenerateRecipeByVoice_generate
    \/ HandleGenerateRecipeByVoice_name
    \/ RecvGenerateByLink
    \/ HandleGenerateByLink_decode
    \/ GenerateRecipeByLink_fetch
    \/ GenerateRecipeByLink_reformat
    \/ GenerateRecipeByLink_name
    \/ RecvGenerateByImage
    \/ HandleGenerateByImage_form
    \/ HandleGenerateByImage_encode
    \/ HandleGenerateByImage_generate
    \/ HandleGenerateByImage_name
    \/ RecvReprompt
    \/ HandleReprompt_decode
    \/ HandleReprompt_update

SpecGenerate == Init /\ [][NextGenerate]_vars

-----------------------------------------------------------------------------
(* Routes of the earlier revision src/unnamed/part_003:                      *)
(* /api/v1/generate/by-name and /api/v1/transform                            *)

RecipeNames == {"", "Pizza", "Tomato Soup"}
DetailsTexts == {"", "vegan"}

\* body of a by-name request: RecipeGenerateRequest with recipename, details
\* and isGerman
NameBodies ==
    {[ok |-> FALSE, Recipename |-> "", Details |-> "", IsGerman |-> FALSE]}
        \cup {[ok |-> TRUE, Recipename |-> n, Details |-> d, IsGerman |-> g] :
                n \in RecipeNames, d \in DetailsTexts, g \in BOOLEAN}

\* messages built by openAIgenerateRecipe(Recipename, Details, isGerman)
openAIgenerateRecipeDetailsMessages(Recipename, Details, isGerman) ==
    LET systemmessage ==
            IF isGerman THEN SystemMessage(germanSystemMessage)
            ELSE SystemMessage(englishSystemMessage)
        usermessageString ==
            IF isGerman THEN "Erstelle ein Rezept für " \o Recipename
            ELSE "Generate a recipe for " \o Recipename
    IN  IF Details # ""
        THEN << systemmessage, UserMessage(usermessageString \o " details: " \o Details) >>
        ELSE << systemmessage, UserMessage(usermessageString \o Recipename) >>

RecvGenerateByName ==
    \E m \in Methods, b \in NameBodies :
        Receive("by-name", [method |-> m, body |-> b], "name_decode")

\* method check, JSON decoding, required field
HandleGenerateByName_decode ==
    /\ pc = "name_decode"
    /\ IF req.method # "POST"
       THEN Finish(Reply(405, "Invalid request method"))
       ELSE IF ~req.body.ok
       THEN Finish(Reply(400, "Invalid JSON payload"))
       ELSE IF req.body.Recipename = ""
       THEN Finish(Reply(400, "Missing recipename"))
       ELSE pc' = "name_generate" /\ UNCHANGED resp
    /\ UNCHANGED <<served, route, req, loc, calls>>
    /\ StoreUnchanged

\* GenerateRecipeByName(req.Recipename, req.Details, req.IsGerman), then the
\* JSON response with the caller's name
HandleGenerateByName_generate ==
    /\ pc = "name_generate"
    /\ \E out \in Outcomes(RecipeTexts, "") :
        LET r == FirstChoice(out)
        IN  /\ calls' = Append(calls,
                  Call("generate",
                       openAIgenerateRecipeDetailsMessages(req.body.Recipename, req.body.Details,
                                                           req.body.IsGerman),
                       out))
            /\ IF r.panic THEN Panics
               ELSE IF r.err
               THEN Finish(Reply(500, "Error generating recipe"))
               ELSE Finish(ReplyRecipe(req.body.Recipename, r.text, ""))
    /\ UNCHANGED <<served, route, req, loc>>
    /\ StoreUnchanged

\* body of a transform request: RecipeRequest with recipename, recipe and
\* isGerman
TransformBodies ==
    {[ok |-> FALSE, Recipename |-> "", Recipe |-> "", IsGerman |-> FALSE]}
        \cup {[ok |-> TRUE, Recipename |-> n, Recipe |-> r, IsGerman |-> g] :
                n \in {"", "Omas Suppe"}, r \in {"", "Tomaten kochen, salzen"}, g \in BOOLEAN}

\* the two format instructions that TransformRecipe spells out itself
transformGermanMessage ==
    "Du bist ein Agent, der das Format von Rezepten ändert." \o
    "Das Rezept muss im Markdown-Format sein: " \o
    "# <Rezeptname>\n" \o
    "## Zutaten\n" \o
    "- **<MENGE>** Zutat \n" \o
    "## Anweisung 1\n" \o
    "## Anweisung 2" \o
    "Alle Zutaten müssen in metrischen Einheiten angegeben werden."

transformEnglishMessage ==
    "You are an agent that changes the format recipes" \o
    "The recipe needs to be in markdown format: " \o
    "# <Recipe Name>\n" \o "## Ingredients\n" \o "- **<UNIT>** Ingredient \n" \o
    "## Instructionset 1\n" \o "## Instructionset 2" \o
    "All ingredients need to be in metric units."

\* messages built by TransformRecipe: one user message with two text parts
TransformRecipeMessages(Recipe, isGerman) ==
    << [role |-> "user",
        parts |-> << IF isGerman THEN transformGermanMessage ELSE transformEnglishMessage,
                     Recipe >>] >>

\* result of TransformRecipe for a provider outcome
TransformRecipe(out) == FirstChoice(out)

RecvTransformRecipe ==
    \E m \in Methods, b \in TransformBodies :
        Receive("transform", [method |-> m, body |-> b], "transform_decode")

\* method check and JSON decoding
HandleTransformRecipe_decode ==
    /\ pc = "transform_decode"
    /\ IF req.method # "POST"
       THEN Finish(Reply(405, "Invalid request method"))
       ELSE IF ~req.body.ok
       THEN Finish(Reply(400, "Invalid JSON payload"))
       ELSE pc' = "transform_generate" /\ UNCHANGED resp
    /\ UNCHANGED <<served, route, req, loc, calls>>
    /\ StoreUnchanged

\* TransformRecipe(req.Recipe, req.IsGerman); a caller-supplied name ends the
\* request here
HandleTransformRecipe_transform ==
    /\ pc = "transform_generate"
    /\ \E out \in Outcomes(RecipeTexts, "") :
        LET r == TransformRecipe(out)
        IN  /\ calls' = Append(calls,
                  Call("transform", TransformRecipeMessages(req.body.Recipe, req.body.IsGerman), out))
            /\ IF r.panic THEN Panics /\ UNCHANGED loc
               ELSE IF r.err
               THEN Finish(Reply(500, "Error generating recipe")) /\ UNCHANGED loc
               ELSE /\ loc' = [loc EXCEPT !.recipe = r.text]
                    /\ IF req.body.Recipename # ""
                       THEN Finish(ReplyRecipe(req.body.Recipename, r.text, ""))
                       ELSE pc' = "transform_name" /\ UNCHANGED resp
    /\ UNCHANGED <<served, route, req>>
    /\ StoreUnchanged

\* openAIgenerateRecipeName for a request without a name, then the response
HandleTransformRecipe_name ==
    /\ pc = "transform_name"
    /\ \E out \in Outcomes(NameTexts, "") :
        LET n == openAIgenerateRecipeName(out)
        IN  /\ calls' = Append(calls,
                  Call("name", openAIgenerateRecipeNameMessages(loc.recipe, req.body.IsGerman), out))
            /\ IF n.panic THEN Panics
               ELSE IF n.err
               THEN Finish(Reply(500, "Error generating recipe"))
               ELSE Finish(ReplyRecipe(n.text, loc.recipe, ""))
    /\ UNCHANGED <<served, route, req, loc>>
    /\ StoreUnchanged

NextLegacy ==
    \/ RecvGenerateByName
    \/ HandleGenerateByName_decode
    \/ HandleGenerateByName_generate
    \/ RecvTransformRecipe
    \/ HandleTransformRecipe_decode
    \/ HandleTransformRecipe_transform
    \/ HandleTransformRecipe_name

SpecLegacy == Init /\ [][NextLegacy]_vars

\* the routes on which the caller may supply the recipe name or the category
NextSupplied ==
    \/ RecvGenerateByImage
    \/ HandleGenerateByImage_form
    \/ HandleGenerateByImage_encode
    \/ HandleGenerateByImage_generate
    \/ HandleGenerateByImage_name
    \/ RecvTransformRecipe
    \/ HandleTransformRecipe_decode
    \/ HandleTransformRecipe_transform
    \/ HandleTransformRecipe_name
    \/ RecvAddRecipe
    \/ HandleAddRecipe_decode
    \/ HandleAddRecipe_category(CategoryAnswers)
    \/ HandleAddRecipe_getuser
    \/ HandleAddRecipe_insert
    \/ HandleAddRecipe_blob
    \/ HandleAddRecipe_index
    \/ HandleAddRecipe_publish

SpecSupplied == Init /\ [][NextSupplied]_vars

-----------------------------------------------------------------------------
(* Properties of the by-name prompt and of the naming call *)

\* C11: in the revision whose openAIgenerateRecipe takes (Recipename, Details,
\* isGerman), the user message of the generation call is the task phrase of
\* the locale followed by the recipe name once, and the details text is
\* appended after it if and only if Details is not empty.
ByNamePromptWithDetails ==
    \A i \in CallsOf({"generate"}) :
        route = "by-name"
            => LET phrase == IF req.body.IsGerman THEN "Erstelle ein Rezept für "
                             ELSE "Generate a recipe for "
                   content == calls[i].msgs[2].content
               IN  /\ req.body.Details = ""
                        => content = phrase \o req.body.Recipename
                   /\ req.body.Details # ""
                        => content = phrase \o req.body.Recipename
                                        \o " details: " \o req.body.Details

\* the answers of the naming calls of the request in flight
NameAnswers == {calls[i].out.text : i \in {j \in CallsOf({"name"}) : calls[j].out.kind = "ok"}}

\* C12: whatever text n the naming call answers, a request that ends with
\* success after a naming call carries exactly n in the recipename field of
\* its response, also when n has more than two words.
NamePassThrough ==
    (pc = "done" /\ resp.status = 200 /\ CallsOf({"name"}) # {})
        => NameAnswers = {resp.recipename}

\* a by-description request answered with a name of five words
NamePassThroughWitness ==
    /\ route = "by-description"
    /\ pc = "done"
    /\ resp.status = 200
    /\ CallsOf({"name"}) # {}
    /\ resp.recipename = "Grandmas Best Creamy Tomato Soup"

-----------------------------------------------------------------------------
(* Properties of caller-supplied fields and of the multipart routes *)

\* the recipe name that the by-image or transform request in flight carries
SuppliedName == IF route = "by-image" THEN req.recipename ELSE req.body.Recipename

\* C13: a by-image or transform request with a non-empty recipename makes no
\* naming call and, when it succeeds, answers with exactly that name; an
\* add-recipe request with a non-empty recipecategory makes no categorization
\* call and persists exactly that category; so the naming and categorization
\* calls are made only for an absent or empty field.
CallerSuppliedFieldsWin ==
    /\ (route \in {"by-image", "transform"} /\ SuppliedName # "")
          => /\ CallsOf({"name"}) = {}
             /\ (pc = "done" /\ resp.status = 200) => resp.recipename = SuppliedName
    /\ (route = "add" /\ req.body.RecipeCategory # "")
          => /\ CallsOf({"category"}) = {}
             /\ \A r \in InsertedRows : r.category = req.body.RecipeCategory

\* an add-recipe request that supplied Brot has been answered with success
CallerSuppliedFieldsWinWitness ==
    /\ route = "add"
    /\ req.body.RecipeCategory = "Brot"
    /\ pc = "done"
    /\ resp.status = 200
    /\ \E r \in InsertedRows : r.category = "Brot"

\* the POST requests of the multipart routes (by-voice is registered for POST
\* only) that are past the check of their form
PastFormCheck ==
    \/ route = "by-voice" /\ pc # "form"
    \/ route = "by-image" /\ req.method = "POST" /\ pc # "image_form"

\* the format contract sent with generation call i of a multipart route
ContractOf(i) ==
    IF route = "by-image" THEN calls[i].msgs[1].parts[1] ELSE calls[i].msgs[1].content

\* C14: on by-image and by-voice a request whose isGerman value is not exactly
\* "true" or "false" (an empty or missing value included) is answered with
\* status 400 and has made no call at all; "true" selects the German contract
\* and "false" the English one.
LocaleFlagValidation ==
    /\ (PastFormCheck /\ req.isGerman \notin {"true", "false"})
          => /\ pc = "done"
             /\ resp.status = 400
             /\ calls = <<>>
    /\ route \in {"by-image", "by-voice"}
          => \A i \in CallsOf({"generate", "image"}) :
                /\ req.isGerman = "true" => ContractOf(i) = germanSystemMessage
                /\ req.isGerman = "false" => ContractOf(i) = englishSystemMessage

\* a by-image request with isGerman = "ja" has been rejected
LocaleFlagValidationWitness ==
    /\ route = "by-image"
    /\ req.method = "POST"
    /\ req.formOk
    /\ req.hasImage
    /\ req.isGerman = "ja"
    /\ resp = Reply(400, "isGerman must be 'true' or 'false'")

\* C15: a by-image request whose image file is larger than 10 MB is rejected
\* by the form parsing with status 400, before the image is encoded and before
\* any LLM call.
ImageSizeCap ==
    (route = "by-image" /\ req.method = "POST" /\ req.imageBytes > 10 * 1048576
       /\ pc # "image_form")
        => /\ pc = "done"
           /\ resp.status = 400
           /\ calls = <<>>

-----------------------------------------------------------------------------
(* Properties of input validation on the generation routes *)

\* the payload field of the request in flight is missing or empty
EmptyPayload ==
    \/ route = "by-description" /\ req.body.ok /\ req.body.RecipeDescription = ""
    \/ route = "by-link" /\ req.body.ok /\ req.body.URL = ""
    \/ route = "by-image" /\ req.formOk /\ ~req.hasImage
    \/ route = "by-voice" /\ req.formOk /\ ~req.hasAudio
    \/ route = "reprompt" /\ req.body.ok
         /\ (req.body.Recipe = "" \/ req.body.ChangePrompt = "")

\* C16: on every generation route a request whose payload field is missing or
\* empty makes no call at all (no judge, generation or naming call) and is
\* answered with a client error.
EmptyPayloadRejectedFirst ==
    EmptyPayload
        => /\ calls = <<>>
           /\ pc \in {"done", "panicked"} => (pc = "done" /\ resp.status \in 400..499)

\* C17: on by-description the response "Input rejected by LLM judge" is given
\* only to a request with a decodable body and a non-empty description that
\* the judge was asked about and classified as not recipe-related.
JudgeRejectionOnlyForWellFormed ==
    (route = "by-description" /\ resp.msg = "Input rejected by LLM judge")
        => /\ req.body.ok
           /\ req.body.RecipeDescription # ""
           /\ CallsOf({"judge"}) # {}
           /\ ~loc.verdict

\* the calls of the request in flight that the provider answered with an
\* empty choice list
EmptyChoiceCalls == {i \in 1..Len(calls) : calls[i].out.kind = "empty"}

\* C19: a completion call answered with zero choices never crashes the
\* request and never leads to a success: the request ends with a 500-class
\* response, or, when the call was the judge's, with the rejection that
\* follows a false verdict.
EmptyChoicesAreFailures ==
    \A i \in EmptyChoiceCalls :
        /\ pc = "done"
        /\ IF calls[i].fn = "judge"
           THEN ~loc.verdict /\ resp.status = 400
           ELSE resp.status \in 500..599

-----------------------------------------------------------------------------
(* Properties of the store/list round trip *)

\* the list entry that reproduces row r field by field
EntryOf(r) == [ID |-> r.id, Recipename |-> r.title, Recipe |-> r.content, Category |-> r.category]

\* the rows of the requester that table recipes holds
RowsOfRequester == {r \in db : r.user_id \in RequesterIds}

\* C18: the row that add-recipe stores carries the name, the content and the
\* category of the request unchanged, and a successful get-recipes returns
\* for every row that the requester owns exactly one entry whose name,
\* content and category are the stored strings, and no other entry.
StoreListRoundTrip ==
    /\ \A r \in InsertedRows :
           /\ r.user_id = loc.userID
           /\ r.title = req.body.Recipename
           /\ r.content = req.body.Recipe
           /\ r.category = loc.category
    /\ (route = "get" /\ pc = "done" /\ resp.status = 200)
           => /\ {resp.recipes[i] : i \in 1..Len(resp.recipes)}
                    = {EntryOf(r) : r \in RowsOfRequester}
              /\ Len(resp.recipes) = Cardinality(RowsOfRequester)

\* a list request has returned a stored recipe whose name differs from its
\* content
StoreListRoundTripWitness ==
    /\ route = "get" /\ pc = "done" /\ resp.status = 200
    /\ \E i \in 1..Len(resp.recipes) :
           /\ resp.recipes[i].Recipename # resp.recipes[i].Recipe
           /\ \E r \in db : resp.recipes[i] = EntryOf(r)

-----------------------------------------------------------------------------
(* Properties of the order of the steps of one request *)

GenerateRoutes == {"by-description", "by-voice", "by-link", "by-image", "reprompt"}

\* the external calls of the request in flight, by name, in their order
FnSeq == [i \in 1..Len(calls) |-> calls[i].fn]

\* the calls of a complete run of the request in flight, in the order of the
\* steps: judge (where wired), completing, naming (if absent)
StepOrder ==
    CASE route = "by-description" -> <<"judge", "generate", "name">>
      [] route = "by-voice" -> <<"transcribe", "judge", "generate", "name">>
      [] route = "by-link" -> <<"fetch", "reformat", "name">>
      [] route = "by-image" ->
            <<"encode", "image">> \o (IF req.recipename = "" THEN <<"name">> ELSE <<>>)
      [] route = "reprompt" -> <<"reprompt">>
      [] OTHER -> <<>>

IsPrefix(s, t) == Len(s) <= Len(t) /\ \A i \in 1..Len(s) : s[i] = t[i]

-----------------------------------------------------------------------------
(* The five modalities whose prompt is built from a payload and a locale    *)

NextPrompt ==
    \/ RecvGenerateByDescription
    \/ HandlerJudgeMiddleware
    \/ HandleGenerateByDescription_decode
    \/ HandleGenerateByDescription_generate
    \/ HandleGenerateByDescription_name
    \/ RecvGenerateRecipeByVoice
    \/ HandleGenerateRecipeByVoice_form
    \/ HandleGenerateRecipeByVoice_transcribe
    \/ HandleGenerateRecipeByVoice_judge
    \/ HandleGenerateRecipeByVoice_generate
    \/ HandleGenerateRecipeByVoice_name
    \/ RecvGenerateByLink
    \/ HandleGenerateByLink_decode
    \/ GenerateRecipeByLink_fetch
    \/ GenerateRecipeByLink_reformat
    \/ GenerateRecipeByLink_name
    \/ RecvGenerateByImage
    \/ HandleGenerateByImage_form
    \/ HandleGenerateByImage_encode
    \/ HandleGenerateByImage_generate
    \/ HandleGenerateByImage_name
    \/ RecvTransformRecipe
    \/ HandleTransformRecipe_decode
    \/ HandleTransformRecipe_transform
    \/ HandleTransformRecipe_name

SpecPrompt == Init /\ [][NextPrompt]_vars

-----------------------------------------------------------------------------
(* Properties of the prompt builders *)

\* the calls that carry the generation prompt of a modality
PromptCalls == CallsOf({"generate", "reformat", "image", "transform"})

\* the locale that the request in flight asks for
PromptLocale ==
    IF route \in {"by-voice", "by-image"} THEN req.isGerman = "true" ELSE req.body.IsGerman

\* the payload text of the request in flight: the description, the recipe to
\* transform, the transcript of the recording, the fetched page, the encoded
\* image
PromptPayload ==
    CASE route = "by-description" -> req.body.RecipeDescription
      [] route = "transform" -> req.body.Recipe
      [] route \in {"by-voice", "by-link"} -> calls[1].out.text
      [] route = "by-image" -> "aW1hZ2U="

\* the prompt of a modality, written out as a function of locale and payload
PromptSpec(modality, isGerman, payload) ==
    CASE modality \in {"by-description", "by-voice"} ->
            << [role |-> "system",
                content |-> IF isGerman THEN germanSystemMessage ELSE englishSystemMessage],
               [role |-> "user",
                content |-> (IF isGerman THEN "Erstelle ein Rezept für folgende Beschreibung: "
                             ELSE "Generate a recipe for the following description: ")
                            \o payload] >>
      [] modality = "by-link" ->
            << [role |-> "system",
                content |-> IF isGerman THEN germanSystemMessage ELSE englishSystemMessage],
               [role |-> "user",
                content |-> (IF isGerman THEN "Ändere das Rezept in Markdown-Format: "
                             ELSE "Change to markdown format: ")
                            \o payload] >>
      [] modality = "by-image" ->
            << [role |-> "user",
                parts |-> << IF isGerman THEN germanSystemMessage ELSE englishSystemMessage,
                             "data:image/jpeg;base64," \o payload >>] >>
      [] modality = "transform" ->
            << [role |-> "user",
                parts |-> << IF isGerman THEN transformGermanMessage
                             ELSE transformEnglishMessage,
                             payload >>] >>

\* C21: in every request, whatever requests were served before it, the
\* generation prompt of each modality (description, voice, link, image,
\* transform) is one fixed function of the modality, the locale and the
\* payload of that request, so two requests with the same payload and locale
\* send the same system and user texts.
PromptDeterminism ==
    \A i \in PromptCalls : calls[i].msgs = PromptSpec(route, PromptLocale, PromptPayload)

\* a second request, in English, has sent its by-link prompt
PromptDeterminismWitness ==
    /\ served = 2
    /\ route = "by-link"
    /\ ~req.body.IsGerman
    /\ CallsOf({"reformat"}) # {}

-----------------------------------------------------------------------------
(* bootstrapStorageAccount: the copy of the template files into a new       *)
(* storage account (src/azure_storage_account.go)                           *)

filesToCopy ==
    << "index.html", "libs/markdown-it.min.js", "libs/modern-normalize.min.css",
       "libs/water.light.min.css" >>

maxRetries == 5

\* retryDelay, in seconds
retryDelay == 5

\* the position of the two loops: the file of the outer loop, the attempt of
\* the inner one, and the value of err
BootLoc(file, attempt, err) == [file |-> file, attempt |-> attempt, err |-> err]

\* bootstrapStorageAccount has enabled the static website and enters the loop
\* over filesToCopy
InitBootstrap ==
    /\ route = "bootstrap"
    /\ req = NoRequest
    /\ pc = "copy"
    /\ loc = BootLoc(1, 1, FALSE)
    /\ calls = <<>>
    /\ resp = NoResp
    /\ served = 1
    /\ users = InitUsers
    /\ db = {}
    /\ nextId = 1
    /\ blobs = InitBlobs
    /\ globals = NoGlobals

\* the end of the inner loop for the file in hand: return err when it is set,
\* go on with the next file otherwise, return nil after the last file
bootstrapStorageAccount_nextFile(err) ==
    IF err
    THEN pc' = "returned" /\ loc' = BootLoc(loc.file, loc.attempt, TRUE)
    ELSE IF loc.file = Len(filesToCopy)
    THEN pc' = "returned" /\ loc' = BootLoc(loc.file, loc.attempt, FALSE)
    ELSE pc' = "copy" /\ loc' = BootLoc(loc.file + 1, 1, FALSE)

\* an inner loop without the break: it goes on copying after a success
bootstrapStorageAccount_copyNoBreak ==
    /\ pc = "copy"
    /\ route = "bootstrap"
    /\ \E copied \in BOOLEAN :
        /\ calls' = Append(calls, Call("copy", filesToCopy[loc.file], DbResult(copied)))
        /\ IF loc.attempt < maxRetries
           THEN /\ pc' = IF copied THEN "copy" ELSE "sleep"
                /\ loc' = BootLoc(loc.file, IF copied THEN loc.attempt + 1 ELSE loc.attempt,
                                  ~copied)
           ELSE bootstrapStorageAccount_nextFile(~copied)
    /\ UNCHANGED <<served, route, req, resp>>
    /\ StoreUnchanged

\* err = copyDefaultBlobs(storageAccountName, file) and the rest of the body
\* of the inner loop up to the wait
bootstrapStorageAccount_copy ==
    /\ pc = "copy"
    /\ route = "bootstrap"
    /\ \E copied \in BOOLEAN :
        /\ calls' = Append(calls, Call("copy", filesToCopy[loc.file], DbResult(copied)))
        /\ IF copied
           THEN bootstrapStorageAccount_nextFile(FALSE)
           ELSE IF loc.attempt < maxRetries
           THEN pc' = "sleep" /\ loc' = BootLoc(loc.file, loc.attempt, TRUE)
           ELSE bootstrapStorageAccount_nextFile(TRUE)
    /\ UNCHANGED <<served, route, req, resp>>
    /\ StoreUnchanged

\* time.Sleep(retryDelay) and attempt++
bootstrapStorageAccount_sleep ==
    /\ pc = "sleep"
    /\ route = "bootstrap"
    /\ calls' = Append(calls, Call("sleep", retryDelay, DbResult(TRUE)))
    /\ pc' = "copy"
    /\ loc' = BootLoc(loc.file, loc.attempt + 1, loc.err)
    /\ UNCHANGED <<served, route, req, resp>>
    /\ StoreUnchanged

NextBootstrap ==
    \/ bootstrapStorageAccount_copy
    \/ bootstrapStorageAccount_sleep

SpecBootstrap == InitBootstrap /\ [][NextBootstrap]_vars

-----------------------------------------------------------------------------
(* Properties of the bootstrap retry *)

\* the copy attempts for file f, in their order among the calls
CopiesOf(f) == {i \in 1..Len(calls) : calls[i].fn = "copy" /\ calls[i].msgs = f}

Files == {filesToCopy[k] : k \in 1..Len(filesToCopy)}

\* C22: each of the four files is copied with at most 5 attempts and no
\* attempt follows a success; a wait of retryDelay comes only after a failed
\* attempt that is not the fifth and is followed by the next attempt for the
\* same file; once all 5 attempts for a file have failed the function has
\* returned that error and no later file was attempted; when it returns nil
\* every file was copied; the phase makes at most 20 copy attempts and at
\* most 16 waits, so it ends after at most 36 steps.
BoundedBootstrapRetry ==
    /\ \A f \in Files :
           /\ Cardinality(CopiesOf(f)) <= 5
           /\ \A i, j \in CopiesOf(f) : i < j => calls[i].out.kind = "err"
    /\ Cardinality(CallsOf({"copy"})) <= 20
    /\ Cardinality(CallsOf({"sleep"})) <= 16
    /\ \A i \in CallsOf({"sleep"}) :
           /\ calls[i].msgs = 5
           /\ i > 1 /\ calls[i - 1].fn = "copy" /\ calls[i - 1].out.kind = "err"
           /\ Cardinality({j \in CopiesOf(calls[i - 1].msgs) : j < i}) < 5
           /\ i < Len(calls) =>
                  calls[i + 1].fn = "copy" /\ calls[i + 1].msgs = calls[i - 1].msgs
    /\ \A i \in CallsOf({"copy"}) :
           (calls[i].out.kind = "err" /\ Cardinality({j \in CopiesOf(calls[i].msgs) : j <= i}) = 5)
               => pc = "returned" /\ loc.err /\ i = Len(calls)
    /\ \A i \in CallsOf({"copy"}) :
           (calls[i].out.kind = "err" /\ i < Len(calls)) => calls[i + 1].fn = "sleep"
    /\ pc = "returned" =>
           IF loc.err
           THEN calls[Len(calls)].fn = "copy" /\ calls[Len(calls)].out.kind = "err"
           ELSE \A f \in Files : \E i \in CopiesOf(f) : calls[i].out.kind = "ok"

\* the third file failed five times after the first two had needed retries
BoundedBootstrapRetryWitness ==
    /\ pc = "returned" /\ loc.err /\ loc.file = 3
    /\ Cardinality(CopiesOf(filesToCopy[3])) = 5
    /\ Cardinality(CopiesOf(filesToCopy[1])) = 5
    /\ Cardinality(CallsOf({"sleep"})) > 8
    /\ CopiesOf(filesToCopy[4]) = {}

-----------------------------------------------------------------------------
(* Properties of partial writes *)

\* the add-recipe request in flight has inserted its row and a later step of
\* it (the mirror upload, the index query or the index upload) has failed
FailedAfterInsert ==
    /\ route = "add"
    /\ \E i \in CallsOf({"insert"}) :
           /\ calls[i].out.kind = "ok"
           /\ \E j \in FailedCalls : j > i

\* C23: an add-recipe request whose row insert succeeded and whose later step
\* (blob mirror or index regeneration) failed is answered with a server error
\* and its row stays in the database; and no step of any handler removes or
\* rewrites a row other than the delete or update statement of the request
\* itself (no compensating delete or update).
NoRollbackOfPartialWrites ==
    /\ []((FailedAfterInsert /\ pc = "done")
            => (resp.status = 500 /\ InsertedRows # {}))
    /\ [][ IF Idle THEN db' = db
           ELSE /\ route \in {"add", "get"} => db \subseteq db'
                /\ route = "delete" =>
                       db' \in {db, RemoveRecipeFromDB(loc.userID, req.body.recipeID)}
                /\ route = "update" =>
                       \A r \in db : r \in db' \/ (r.id = req.body.ID /\ r.user_id = loc.userID)
         ]_vars

-----------------------------------------------------------------------------
(* Concurrent requests on /api/v1/login: HandleLogin and, inside it,        *)
(* bootstrapStorageAccount. net/http runs every request in a goroutine of   *)
(* its own: route, req, pc, loc, calls and resp hold one value per          *)
(* goroutine; the tables, the storage accounts and the package-level        *)
(* variables are shared.                                                     *)

\* the goroutines that serve requests at the same time
Procs == {1, 2}

\* X-MS-CLIENT-PRINCIPAL-ID of a login: missing, a known user, a new user
LoginIds == {"", "oid-1", "oid-7"}

\* the results of randomString
SubdomainNames == {"k3x9aa01", "p0q7zz42"}

\* the blobs that a completed bootstrap has copied into the account
TemplateBlobs == {[path |-> <<filesToCopy[k]>>, content |-> <<"template">>] :
                    k \in 1..Len(filesToCopy)}

LoginLoc0 == [storageAccountName |-> "", userID |-> 0, doc |-> <<>>, seen |-> {}]

\* the first user has logged in before: row, account, template files, index
InitLogin ==
    /\ route = [p \in Procs |-> "none"]
    /\ req = [p \in Procs |-> NoRequest]
    /\ pc = [p \in Procs |-> "idle"]
    /\ loc = [p \in Procs |-> LoginLoc0]
    /\ calls = [p \in Procs |-> <<>>]
    /\ resp = [p \in Procs |-> NoResp]
    /\ served = 0
    /\ users = {[id |-> 1, oauth_id |-> "oid-1", subdomain |-> "acct1"]}
    /\ db = {}
    /\ nextId = 1
    /\ blobs = [a \in {"acct1"} |->
                  TemplateBlobs \cup {[path |-> <<"recipes.md">>, content |-> combinedTemplate(<<>>)]}]
    /\ globals = NoGlobals

\* goroutine p goes to position next with locals l
Goto(p, next, l) ==
    /\ pc' = [pc EXCEPT ![p] = next]
    /\ loc' = [loc EXCEPT ![p] = l]
    /\ resp' = resp

\* goroutine p writes response r and returns
FinishLogin(p, r) ==
    /\ pc' = [pc EXCEPT ![p] = "done"]
    /\ resp' = [resp EXCEPT ![p] = r]
    /\ loc' = loc

\* a login request arrives and is given to an idle goroutine
RecvLogin(p) ==
    /\ pc[p] = "idle"
    /\ \E o \in LoginIds :
        /\ route' = [route EXCEPT ![p] = "login"]
        /\ req' = [req EXCEPT ![p] = [method |-> "GET", oauth |-> o, body |-> [ok |-> FALSE]]]
    /\ pc' = [pc EXCEPT ![p] = "login_select"]
    /\ served' = served + 1
    /\ UNCHANGED <<loc, calls, resp>>
    /\ StoreUnchanged

\* the header check and SELECT subdomain FROM users WHERE oauth_id = $1
HandleLogin_select(p) ==
    /\ pc[p] = "login_select"
    /\ IF req[p].oauth = ""
       THEN FinishLogin(p, Reply(401, "Unauthorized: Missing authentication headers"))
       ELSE \E dbOk \in BOOLEAN :
              LET rows == {u \in users : u.oauth_id = req[p].oauth}
              IN  IF ~dbOk THEN FinishLogin(p, Reply(500, "Database Error"))
                  ELSE IF rows = {} THEN Goto(p, "login_insert", loc[p])
                  ELSE \E u \in rows :
                         /\ pc' = [pc EXCEPT ![p] = "done"]
                         /\ loc' = [loc EXCEPT ![p].storageAccountName = u.subdomain]
                         /\ resp' = [resp EXCEPT ![p] = Reply(200, "")]
    /\ UNCHANGED <<served, route, req, calls>>
    /\ StoreUnchanged

\* randomString() and INSERT INTO users (oauth_id, name, oauth_provider, subdomain)
HandleLogin_insert(p) ==
    /\ pc[p] = "login_insert"
    /\ \E randOk \in BOOLEAN, name \in SubdomainNames, dbOk \in BOOLEAN :
        IF ~randOk
        THEN FinishLogin(p, Reply(500, "Failed to generate random string")) /\ UNCHANGED users
        ELSE IF ~dbOk
        THEN FinishLogin(p, Reply(500, "Database Error Failed to create user")) /\ UNCHANGED users
        ELSE /\ users' = users \cup {[id |-> Cardinality(users) + 1,
                                       oauth_id |-> req[p].oauth, subdomain |-> name]}
             /\ Goto(p, "boot_factory", [loc[p] EXCEPT !.storageAccountName = name])
    /\ UNCHANGED <<served, route, req, calls, db, nextId, blobs, globals>>

\* bootstrapStorageAccount up to armstorage.NewClientFactory: assigns the
\* package-level subscriptionID and storageClientFactory
bootstrapStorageAccount_factory(p) ==
    /\ pc[p] = "boot_factory"
    /\ \E ok \in BOOLEAN :
        IF ~ok
        THEN /\ FinishLogin(p, Reply(500, "Failed to bootstrap static website"))
             /\ globals' = [globals EXCEPT !.subscriptionID = p]
        ELSE /\ Goto(p, "boot_client", loc[p])
             /\ globals' = [globals EXCEPT !.subscriptionID = p, !.storageClientFactory = p]
    /\ UNCHANGED <<served, route, req, calls, users, db, nextId, blobs>>

\* accountsClient = storageClientFactory.NewAccountsClient(): reads the
\* package-level factory and assigns the package-level client
bootstrapStorageAccount_client(p) ==
    /\ pc[p] = "boot_client"
    /\ globals' = [globals EXCEPT !.accountsClient = globals.storageClientFactory]
    /\ Goto(p, "boot_check", [loc[p] EXCEPT !.seen = @ \cup {globals.storageClientFactory}])
    /\ UNCHANGED <<served, route, req, calls, users, db, nextId, blobs>>

\* checkNameAvailability, through the package-level accountsClient
bootstrapStorageAccount_check(p) ==
    /\ pc[p] = "boot_check"
    /\ \E ok \in BOOLEAN :
        IF ~ok \/ loc[p].storageAccountName \in DOMAIN blobs
        THEN FinishLogin(p, Reply(500, "Failed to bootstrap static website"))
        ELSE Goto(p, "boot_create", [loc[p] EXCEPT !.seen = @ \cup {globals.accountsClient}])
    /\ UNCHANGED <<served, route, req, calls>>
    /\ StoreUnchanged

\* createStorageAccount, through the package-level accountsClient
bootstrapStorageAccount_create(p) ==
    /\ pc[p] = "boot_create"
    /\ \E ok \in BOOLEAN :
        IF ~ok \/ loc[p].storageAccountName \in DOMAIN blobs
        THEN FinishLogin(p, Reply(500, "Failed to bootstrap static website")) /\ UNCHANGED blobs
        ELSE /\ blobs' = [a \in DOMAIN blobs \cup {loc[p].storageAccountName} |->
                            IF a \in DOMAIN blobs THEN blobs[a] ELSE {}]
             /\ Goto(p, "boot_configure", [loc[p] EXCEPT !.seen = @ \cup {globals.accountsClient}])
    /\ UNCHANGED <<served, route, req, calls, users, db, nextId, globals>>

\* assignBlobDataContributorRole, storageAccountProperties, updateStorageAccount
\* (both through accountsClient) and enableStaticWebsite
bootstrapStorageAccount_configure(p) ==
    /\ pc[p] = "boot_configure"
    /\ \E ok \in BOOLEAN :
        IF ~ok
        THEN FinishLogin(p, Reply(500, "Failed to bootstrap static website"))
        ELSE Goto(p, "boot_copy", [loc[p] EXCEPT !.seen = @ \cup {globals.accountsClient}])
    /\ UNCHANGED <<served, route, req, calls>>
    /\ StoreUnchanged

\* the loop over filesToCopy as a whole: the first k files are copied, and
\* the function returns an error unless all of them are
bootstrapStorageAccount_files(p) ==
    /\ pc[p] = "boot_copy"
    /\ \E k \in 0..Len(filesToCopy) :
        /\ blobs' = [blobs EXCEPT ![loc[p].storageAccountName] =
                        @ \cup {b \in TemplateBlobs : \E i \in 1..k : b.path = <<filesToCopy[i]>>}]
        /\ IF k < Len(filesToCopy)
           THEN FinishLogin(p, Reply(500, "Failed to bootstrap static website"))
           ELSE Goto(p, "login_getuser", loc[p])
    /\ UNCHANGED <<served, route, req, calls, users, db, nextId, globals>>

\* userID, _, _ := GetUserInformation(oauthID): the error is dropped
HandleLogin_getuser(p) ==
    /\ pc[p] = "login_getuser"
    /\ \E dbOk \in BOOLEAN :
        Goto(p, "login_index",
             [loc[p] EXCEPT !.userID = GetUserInformation(req[p].oauth, dbOk).userID])
    /\ UNCHANGED <<served, route, req, calls>>
    /\ StoreUnchanged

\* templateRecipesBlob, first half: GetRecipes and the document
HandleLogin_index(p) ==
    /\ pc[p] = "login_index"
    /\ \E dbOk \in BOOLEAN :
        IF ~dbOk
        THEN FinishLogin(p, Reply(500, "Failed to template recipes"))
        ELSE \E recipes \in GetRecipes(loc[p].userID) :
                Goto(p, "login_publish", [loc[p] EXCEPT !.doc = combinedTemplate(recipes)])
    /\ UNCHANGED <<served, route, req, calls>>
    /\ StoreUnchanged

\* templateRecipesBlob, second half: addBlob(storageAccountName, "recipes.md", ...),
\* then the headers and status 200
HandleLogin_publish(p) ==
    /\ pc[p] = "login_publish"
    /\ \E uploaded \in BOOLEAN :
        LET r == addBlob(loc[p].storageAccountName, <<"recipes.md">>, loc[p].doc, uploaded)
        IN  /\ blobs' = r.blobs
            /\ IF r.err THEN FinishLogin(p, Reply(500, "Failed to template recipes"))
               ELSE FinishLogin(p, Reply(200, ""))
    /\ UNCHANGED <<served, route, req, calls, users, db, nextId, globals>>

NextLogin ==
    \E p \in Procs :
        \/ RecvLogin(p)
        \/ HandleLogin_select(p)
        \/ HandleLogin_insert(p)
        \/ bootstrapStorageAccount_factory(p)
        \/ bootstrapStorageAccount_client(p)
        \/ bootstrapStorageAccount_check(p)
        \/ bootstrapStorageAccount_create(p)
        \/ bootstrapStorageAccount_configure(p)
        \/ bootstrapStorageAccount_files(p)
        \/ HandleLogin_getuser(p)
        \/ HandleLogin_index(p)
        \/ HandleLogin_publish(p)

SpecLogin == InitLogin /\ [][NextLogin]_vars

-----------------------------------------------------------------------------
(* Properties of concurrent logins *)

\* C24: no request handler, and no function it calls, writes a package-level
\* variable (the database pool, assigned once at startup, is the only one), and
\* no request reads through such a variable a value that another request put
\* there.
NoSharedMutableState ==
    /\ globals = NoGlobals
    /\ \A p \in Procs : loc[p].seen \subseteq {p}

-----------------------------------------------------------------------------
(* Concurrent add-recipe and delete-recipe requests of one user: the same   *)
(* handlers as above, one goroutine per request, over the shared tables and *)
(* storage account                                                           *)

\* the recipe that the user has stored before
StoredRecipe ==
    [id |-> 1, user_id |-> 1, title |-> <<"c">>, content |-> AnyContent, category |-> "Dessert"]

\* well-formed requests of the first user: add-recipe with a category, and
\* delete-recipe of the stored recipe
ConcurrentRequests ==
    {[route |-> "add", method |-> "POST", oauth |-> "oid-1", body |-> AddBody(n, AnyContent, "Brot")] :
        n \in Titles}
    \cup {[route |-> "delete", method |-> "DELETE", oauth |-> "oid-1", body |-> DeleteBody(1)]}

\* the stored recipe with its mirror blob and the index that lists it
InitConcurrent ==
    /\ route = [p \in Procs |-> "none"]
    /\ req = [p \in Procs |-> NoRequest]
    /\ pc = [p \in Procs |-> "idle"]
    /\ loc = [p \in Procs |-> Loc0]
    /\ calls = [p \in Procs |-> <<>>]
    /\ resp = [p \in Procs |-> NoResp]
    /\ served = 0
    /\ users = InitUsers
    /\ db = {StoredRecipe}
    /\ nextId = 2
    /\ blobs = [InitBlobs EXCEPT !["acct1"] =
                  {[path |-> recipePath(StoredRecipe.title), content |-> StoredRecipe.content],
                   [path |-> <<"recipes.md">>,
                    content |-> combinedTemplate(<<ScanRecipe(StoredRecipe)>>)]}]
    /\ globals = NoGlobals

\* goroutine p has made an external call and goes on at position next
Step(p, call, next) ==
    /\ calls' = [calls EXCEPT ![p] = Append(@, call)]
    /\ pc' = [pc EXCEPT ![p] = next]
    /\ resp' = resp

\* goroutine p has made an external call, writes response r and returns
StepFinish(p, call, r) ==
    /\ calls' = [calls EXCEPT ![p] = Append(@, call)]
    /\ pc' = [pc EXCEPT ![p] = "done"]
    /\ resp' = [resp EXCEPT ![p] = r]

\* a request arrives and is given to an idle goroutine; its body passes the
\* checks of the handler
RecvConcurrent(p) ==
    /\ pc[p] = "idle"
    /\ \E r \in ConcurrentRequests :
        /\ route' = [route EXCEPT ![p] = r.route]
        /\ req' = [req EXCEPT ![p] = [method |-> r.method, oauth |-> r.oauth, body |-> r.body]]
    /\ pc' = [pc EXCEPT ![p] = "getuser"]
    /\ served' = served + 1
    /\ UNCHANGED <<loc, calls, resp>>
    /\ StoreUnchanged

\* GetUserInformation(oauthID) in HandleAddRecipe and HandleDeleteRecipe
Concurrent_getuser(p) ==
    /\ pc[p] = "getuser"
    /\ \E dbOk \in BOOLEAN :
        LET u == GetUserInformation(req[p].oauth, dbOk)
            call == Call("getuser", req[p].oauth, DbResult(~u.err))
        IN  IF u.err
            THEN StepFinish(p, call, Reply(500, "Error getting user ID")) /\ UNCHANGED loc
            ELSE /\ Step(p, call, IF route[p] = "add" THEN "insert" ELSE "delete")
                 /\ loc' = [loc EXCEPT ![p].userID = u.userID, ![p].account = u.subdomain,
                                       ![p].category = IF route[p] = "add"
                                                       THEN req[p].body.RecipeCategory ELSE ""]
    /\ UNCHANGED <<served, route, req>>
    /\ StoreUnchanged

\* AddRecipeToDB(userID, req.Recipename, req.Recipe, req.RecipeCategory)
ConcurrentAdd_insert(p) ==
    /\ pc[p] = "insert"
    /\ \E dbOk \in BOOLEAN :
        LET call == Call("insert", req[p].body.Recipename, DbResult(dbOk))
        IN  IF dbOk
            THEN /\ db' = AddRecipeToDB(loc[p].userID, req[p].body.Recipename,
                                        req[p].body.Recipe, loc[p].category)
                 /\ nextId' = nextId + 1
                 /\ Step(p, call, "blob")
            ELSE /\ StepFinish(p, call, Reply(500, "Error adding recipe"))
                 /\ UNCHANGED <<db, nextId>>
    /\ UNCHANGED <<served, route, req, loc, users, blobs, globals>>

\* addBlob(storageaccount, recipePath, req.Recipe)
ConcurrentAdd_blob(p) ==
    /\ pc[p] = "blob"
    /\ \E uploaded \in BOOLEAN :
        LET path == recipePath(req[p].body.Recipename)
            r == addBlob(loc[p].account, path, req[p].body.Recipe, uploaded)
            call == Call("upload", path, DbResult(uploaded))
        IN  /\ blobs' = r.blobs
            /\ IF r.err THEN StepFinish(p, call, Reply(500, "Failed to update recipe"))
               ELSE Step(p, call, "index")
    /\ UNCHANGED <<served, route, req, loc, users, db, nextId, globals>>

\* RemoveRecipeFromDB(userID, recipeID)
ConcurrentDelete_remove(p) ==
    /\ pc[p] = "delete"
    /\ \E dbOk \in BOOLEAN :
        LET call == Call("delete", req[p].body.recipeID, DbResult(dbOk))
        IN  IF dbOk
            THEN /\ db' = RemoveRecipeFromDB(loc[p].userID, req[p].body.recipeID)
                 /\ Step(p, call, "index")
            ELSE /\ StepFinish(p, call, Reply(500, "Error removing recipe"))
                 /\ UNCHANGED db
    /\ UNCHANGED <<served, route, req, loc, users, nextId, blobs, globals>>

\* templateRecipesBlob, first half: GetRecipes and the document built from it
Concurrent_index(p) ==
    /\ pc[p] = "index"
    /\ \E dbOk \in BOOLEAN :
        LET call == Call("select", loc[p].userID, DbResult(dbOk))
        IN  IF ~dbOk
            THEN /\ StepFinish(p, call,
                        Reply(500, IF route[p] = "add" THEN "Failed to template recipes"
                                   ELSE "Error updating recipe template"))
                 /\ UNCHANGED loc
            ELSE /\ \E recipes \in GetRecipes(loc[p].userID) :
                        loc' = [loc EXCEPT ![p].doc = combinedTemplate(recipes)]
                 /\ Step(p, call, "publish")
    /\ UNCHANGED <<served, route, req>>
    /\ StoreUnchanged

\* templateRecipesBlob, second half: addBlob(storageAccountName, "recipes.md", ...),
\* then the success response of the handler
Concurrent_publish(p) ==
    /\ pc[p] = "publish"
    /\ \E uploaded \in BOOLEAN :
        LET r == addBlob(loc[p].account, <<"recipes.md">>, loc[p].doc, uploaded)
            call == Call("upload", <<"recipes.md">>, DbResult(uploaded))
        IN  /\ blobs' = r.blobs
            /\ IF r.err
               THEN StepFinish(p, call, Reply(500, "Failed to template recipes"))
               ELSE StepFinish(p, call,
                        IF route[p] = "add" THEN Reply(200, "Recipe added successfully!")
                        ELSE Reply(200, ""))
    /\ UNCHANGED <<served, route, req, loc, users, db, nextId, globals>>

NextConcurrent ==
    \E p \in Procs :
        \/ RecvConcurrent(p)
        \/ Concurrent_getuser(p)
        \/ ConcurrentAdd_insert(p)
        \/ ConcurrentAdd_blob(p)
        \/ ConcurrentDelete_remove(p)
        \/ Concurrent_index(p)
        \/ Concurrent_publish(p)

SpecConcurrent == InitConcurrent /\ [][NextConcurrent]_vars

-----------------------------------------------------------------------------
(* Properties of the index under concurrency *)

\* the documents that list exactly the recipes that the table holds for user
\* u, in any order of the rows
IndexesOf(u) == {combinedTemplate(o) : o \in GetRecipes(u)}

\* the published index of a storage account
PublishedIndex(account) ==
    {b.content : b \in {x \in blobs[account] : x.path = <<"recipes.md">>}}

\* C25: once all the concurrent add-recipe and delete-recipe requests of the
\* user have completed successfully, the published recipes.md lists exactly
\* the recipes that the table then holds for that user.
IndexConsistentAfterConcurrentRequests ==
    (\A p \in Procs : pc[p] = "done" /\ resp[p].status = 200)
        => PublishedIndex("acct1") \subseteq IndexesOf(1) /\ PublishedIndex("acct1") # {}

-----------------------------------------------------------------------------
(* Properties of login *)

\* storage account a has been bootstrapped completely: it exists, holds the
\* four template files and an index
Bootstrapped(a) ==
    /\ a \in DOMAIN blobs
    /\ TemplateBlobs \subseteq blobs[a]
    /\ \E b \in blobs[a] : b.path = <<"recipes.md">>

\* C26: whenever HandleLogin has answered 200 for an oauth id, the storage
\* account named by the subdomain of that user's row has been bootstrapped
\* completely, by this login or by an earlier one.
LoginImpliesProvisionedStorage ==
    \A p \in Procs :
        (pc[p] = "done" /\ resp[p].status = 200)
            => \A u \in users : u.oauth_id = req[p].oauth => Bootstrapped(u.subdomain)

\* the users rows of oauth id o
RowsOf(o) == {u \in users : u.oauth_id = o}

\* C27: under any interleaving of concurrent logins, at most one users row is
\* inserted for an oauth id and at most one storage account is bootstrapped
\* for it; a login for an oauth id that already has a row inserts nothing and
\* bootstraps nothing.
SingleUserCreation ==
    /\ [](\A o \in LoginIds :
            /\ Cardinality(RowsOf(o)) <= 1
            /\ Cardinality({u.subdomain : u \in RowsOf(o)} \cap DOMAIN blobs) <= 1)
    /\ [][\A p \in Procs :
            (pc[p] = "login_select" /\ RowsOf(req[p].oauth) # {} /\ pc'[p] = "done")
                => users' = users /\ DOMAIN blobs' = DOMAIN blobs]_vars

-----------------------------------------------------------------------------
(* Sequences of add-recipe and update-recipe requests of one user, with the *)
(* calls of all the requests kept in one log                                 *)

\* a new request arrives; the calls of the earlier requests stay in the log
ReceiveLogged(rt, r, start) ==
    /\ Idle
    /\ served < MaxRequests
    /\ route' = rt
    /\ req' = r
    /\ pc' = start
    /\ loc' = Loc0
    /\ calls' = calls
    /\ resp' = NoResp
    /\ served' = served + 1
    /\ StoreUnchanged

\* add-recipe requests of the first user, with and without a category
MirrorAddRequests ==
    {[method |-> "POST", oauth |-> "oid-1", body |-> AddBody(n, r, "Brot")] :
        n \in Titles, r \in Contents}
    \cup {[method |-> "POST", oauth |-> "oid-1", body |-> AddBody(AnyTitle, AnyContent, "")]}

\* update-recipe requests of the first user
MirrorUpdateRequests ==
    {[method |-> "PATCH", oauth |-> "oid-1", body |-> UpdateBody(1, n, r, "Brot")] :
        n \in Titles, r \in Contents}

RecvAddRecipeLogged ==
    /\ nextId <= MaxId
    /\ \E r \in MirrorAddRequests : ReceiveLogged("add", r, "decode")

RecvUpdateRecipeLogged ==
    \E r \in MirrorUpdateRequests : ReceiveLogged("update", r, "getuser")

NextMirror ==
    \/ RecvAddRecipeLogged
    \/ HandleAddRecipe_decode
    \/ HandleAddRecipe_category(CategoryAnswers)
    \/ HandleAddRecipe_getuser
    \/ HandleAddRecipe_insert
    \/ HandleAddRecipe_blob
    \/ HandleAddRecipe_index
    \/ HandleAddRecipe_publish
    \/ RecvUpdateRecipeLogged
    \/ HandleUpdateRecipe_getuser
    \/ HandleUpdateRecipe_decode
    \/ HandleUpdateRecipe_update
    \/ HandleUpdateRecipe_blob
    \/ HandleUpdateRecipe_index
    \/ HandleUpdateRecipe_publish

SpecMirror == Init /\ [][NextMirror]_vars

-----------------------------------------------------------------------------
(* Properties of the blob mirror *)

\* the index uploads in the log: one at the end of every request that ran to
\* its success response
IndexUploads == {i \in CallsOf({"upload"}) : calls[i].msgs = <<"recipes.md">>}

\* every request received so far was answered with success and none of its
\* calls failed
AllRequestsSucceeded ==
    /\ pc = "done"
    /\ resp.status = 200
    /\ FailedCalls = {}
    /\ Cardinality(IndexUploads) = served

\* C28: after any sequence of successful add-recipe and update-recipe
\* requests of one user, for every recipe row of that user the blob
\* recipes/<title with dashes for spaces>.md holds exactly the current
\* content of that row, also when two rows have the same title or titles
\* that differ only in space versus dash.
MirrorMatchesDatabase ==
    AllRequestsSucceeded
        => \A r \in db :
               r.user_id = 1
                   => \E b \in blobs["acct1"] :
                          b.path = recipePath(r.title) /\ b.content = r.content

-----------------------------------------------------------------------------
(* The Git-backed revisions: AddRecipe, CreateRef and appendRecipeListFile  *)
(* (src/unnamed/part_002 lines 488-596, src/unnamed/part_001 lines 204-300). *)
(* In this specification blobs holds, for every branch of the repository,   *)
(* the files at its head.                                                    *)

MainRef == <<"refs/heads/", "main">>

\* recipes.md on main before any recipe was added
MainFiles == {[path |-> <<"recipes.md">>, content |-> <<"# Rezepte">>]}

\* the recipe names handed to AddRecipe
GitRecipeNames == { <<"Tomato", " ", "Soup">>, <<"Tomato", "-", "Soup">>, <<"main">> }

\* "refs/heads/" + strings.ReplaceAll(RecipeName, " ", "-")
RefOf(RecipeName) == <<"refs/heads/">> \o ReplaceAll(RecipeName, " ", "-")

GitLoc0 == [baseSHA |-> {}, newRef |-> <<>>, recipeList |-> <<>>]

InitGit ==
    /\ route = "none"
    /\ req = NoRequest
    /\ pc = "idle"
    /\ loc = GitLoc0
    /\ calls = <<>>
    /\ resp = NoResp
    /\ served = 0
    /\ users = {}
    /\ db = {}
    /\ nextId = 1
    /\ blobs = [b \in {MainRef} |-> MainFiles]
    /\ globals = NoGlobals

\* a handler calls AddRecipe(RecipeName, Content); DEBUG_MODE is set or not
CallAddRecipe ==
    /\ Idle
    /\ served < MaxRequests
    /\ \E n \in GitRecipeNames, c \in Contents, debug \in BOOLEAN :
        req' = [method |-> "POST", oauth |-> "", body |-> [ok |-> TRUE],
                RecipeName |-> n, Content |-> c, debugMode |-> debug]
    /\ route' = "git-add"
    /\ pc' = "getref"
    /\ loc' = GitLoc0
    /\ calls' = <<>>
    /\ resp' = NoResp
    /\ served' = served + 1
    /\ StoreUnchanged

\* the DEBUG_MODE return, and CreateRef's client.Git.GetRef of refs/heads/main
AddRecipe_getref ==
    /\ pc = "getref"
    /\ IF req.debugMode
       THEN Finish(Reply(200, "")) /\ UNCHANGED <<loc, calls>>
       ELSE \E ok \in BOOLEAN :
              /\ calls' = Append(calls, Call("GetRef", MainRef, DbResult(ok)))
              /\ IF ~ok
                 THEN Finish(Reply(500, "Error adding recipe")) /\ UNCHANGED loc
                 ELSE /\ loc' = [loc EXCEPT !.baseSHA = blobs[MainRef]]
                      /\ pc' = "createref"
                      /\ UNCHANGED resp
    /\ UNCHANGED <<served, route, req>>
    /\ StoreUnchanged

\* CreateRef's client.Git.CreateRef: fails when the reference exists already
AddRecipe_createref ==
    /\ pc = "createref"
    /\ \E ok \in BOOLEAN :
        LET ref == RefOf(req.RecipeName)
            out == IF ref \in DOMAIN blobs THEN [kind |-> "exists"] ELSE DbResult(ok)
        IN  /\ calls' = Append(calls, Call("CreateRef", [ref |-> ref, sha |-> loc.baseSHA], out))
            /\ IF out.kind # "ok"
               THEN /\ Finish(Reply(500, "Error adding recipe"))
                    /\ UNCHANGED <<loc, blobs>>
               ELSE /\ blobs' = [b \in DOMAIN blobs \cup {ref} |->
                                   IF b = ref THEN loc.baseSHA ELSE blobs[b]]
                    /\ loc' = [loc EXCEPT !.newRef = ref]
                    /\ pc' = "createfile"
                    /\ UNCHANGED resp
    /\ UNCHANGED <<served, route, req, users, db, nextId, globals>>

\* a CreateFile call without the Branch option: the file goes to the default
\* branch
AddRecipe_createfileOnMain ==
    /\ pc = "createfile"
    /\ \E ok \in BOOLEAN :
        LET path == recipePath(req.RecipeName)
        IN  /\ calls' = Append(calls,
                  Call("CreateFile", [branch |-> MainRef, path |-> path], DbResult(ok)))
            /\ IF ~ok
               THEN Finish(Reply(500, "Error adding recipe")) /\ UNCHANGED blobs
               ELSE /\ blobs' = [blobs EXCEPT ![MainRef] =
                                   @ \cup {[path |-> path, content |-> req.Content]}]
                    /\ pc' = "readlist"
                    /\ UNCHANGED resp
    /\ UNCHANGED <<served, route, req, loc, users, db, nextId, globals>>

\* client.Repositories.CreateFile("recipes/<name>.md", Branch: newRef)
AddRecipe_createfile ==
    /\ pc = "createfile"
    /\ \E ok \in BOOLEAN :
        LET path == recipePath(req.RecipeName)
        IN  /\ calls' = Append(calls,
                  Call("CreateFile", [branch |-> loc.newRef, path |-> path], DbResult(ok)))
            /\ IF ~ok
               THEN Finish(Reply(500, "Error adding recipe")) /\ UNCHANGED blobs
               ELSE /\ blobs' = [blobs EXCEPT ![loc.newRef] =
                                   @ \cup {[path |-> path, content |-> req.Content]}]
                    /\ pc' = "readlist"
                    /\ UNCHANGED resp
    /\ UNCHANGED <<served, route, req, loc, users, db, nextId, globals>>

\* getRecipeListFile: the lines of recipes.md on the default branch, or no
\* lines at all when the read fails
appendRecipeListFile_read ==
    /\ pc = "readlist"
    /\ \E ok \in BOOLEAN :
        LET file == CHOOSE f \in blobs[MainRef] : f.path = <<"recipes.md">>
        IN  /\ calls' = Append(calls, Call("GetContents", <<"recipes.md">>, DbResult(ok)))
            /\ loc' = [loc EXCEPT !.recipeList = IF ok THEN file.content ELSE <<>>]
    /\ pc' = "updatefile"
    /\ UNCHANGED <<served, route, req, resp>>
    /\ StoreUnchanged

\* client.Repositories.UpdateFile("recipes.md", Branch: newRef) with the new
\* line appended
appendRecipeListFile_update ==
    /\ pc = "updatefile"
    /\ \E ok \in BOOLEAN :
        LET newRecipe == <<"- [">> \o req.RecipeName \o <<"](?recipe=">>
                            \o ReplaceAll(req.RecipeName, " ", "-") \o <<")">>
            content == loc.recipeList \o newRecipe
        IN  /\ calls' = Append(calls,
                  Call("UpdateFile", [branch |-> loc.newRef, path |-> <<"recipes.md">>],
                       DbResult(ok)))
            /\ IF ~ok
               THEN Finish(Reply(500, "Error adding recipe")) /\ UNCHANGED blobs
               ELSE /\ blobs' = [blobs EXCEPT ![loc.newRef] =
                                   {f \in @ : f.path # <<"recipes.md">>}
                                       \cup {[path |-> <<"recipes.md">>, content |-> content]}]
                    /\ Finish(Reply(200, "Recipe added successfully!"))
    /\ UNCHANGED <<served, route, req, loc, users, db, nextId, globals>>

NextGit ==
    \/ CallAddRecipe
    \/ AddRecipe_getref
    \/ AddRecipe_createref
    \/ AddRecipe_createfile
    \/ appendRecipeListFile_read
    \/ appendRecipeListFile_update

SpecGit == InitGit /\ [][NextGit]_vars

-----------------------------------------------------------------------------
(* Properties of the Git persistence *)

\* the file writes of the AddRecipe call in hand
GitWrites == CallsOf({"CreateFile", "UpdateFile"})

\* every write names the branch that this call created from the head of
\* main, main is untouched, and a CreateRef that finds the branch ends the call
\* with an error before any write
GitWritesTargetNewBranch ==
    /\ blobs[MainRef] = MainFiles
    /\ \A i \in GitWrites :
          /\ calls[i].msgs.branch = RefOf(req.RecipeName)
          /\ calls[i].msgs.branch # MainRef
          /\ \E j \in CallsOf({"CreateRef"}) :
                /\ j < i
                /\ calls[j].out.kind = "ok"
                /\ calls[j].msgs = [ref |-> calls[i].msgs.branch, sha |-> MainFiles]
    /\ \A j \in CallsOf({"CreateRef"}) :
          calls[j].out.kind = "exists"
              => j = Len(calls) /\ pc = "done" /\ resp.status = 500 /\ GitWrites = {}

\* a step changes no branch but the one this call created, and a new branch
\* appears only at CreateRef, as a copy of main
GitStepTouchesOnlyNewBranch ==
    /\ \A b \in DOMAIN blobs :
          /\ b \in DOMAIN blobs'
          /\ (blobs'[b] # blobs[b] => (b = loc.newRef /\ b # MainRef))
    /\ (DOMAIN blobs' # DOMAIN blobs) =>
          /\ pc = "createref"
          /\ DOMAIN blobs' = DOMAIN blobs \cup {RefOf(req.RecipeName)}
          /\ blobs'[RefOf(req.RecipeName)] = blobs[MainRef]

\* the branch of the call in hand holds the recipe file and a recipes.md with
\* the new line
GitCommitted ==
    /\ RefOf(req.RecipeName) \in DOMAIN blobs
    /\ \E i \in CallsOf({"CreateRef"}) : calls[i].out.kind = "ok"
    /\ \E f \in blobs[RefOf(req.RecipeName)] :
          f.path = recipePath(req.RecipeName) /\ f.content = req.Content
    /\ \E f \in blobs[RefOf(req.RecipeName)] :
          f.path = <<"recipes.md">> /\ Len(f.content) > 0
                /\ f.content[Len(f.content)] = ")"

\* C29 as stated: AddRecipe creates the branch refs/heads/<dashed name> from
\* the head of main and commits the recipe file and the new recipes.md to
\* that branch only, never to main, so a call that returns without error has
\* made both commits; a call for a branch that exists already fails and
\* writes no file.
GitAddRecipeAlwaysBranches ==
    /\ [](/\ GitWritesTargetNewBranch
          /\ (route = "git-add" /\ pc = "done" /\ resp.status = 200) => GitCommitted)
    /\ [][/\ GitStepTouchesOnlyNewBranch
          /\ (pc = "getref" /\ RefOf(req.RecipeName) \in DOMAIN blobs)
                => (blobs' = blobs /\ (pc' = "done" => resp'.status = 500))]_vars

\* C29, amended: unless DEBUG_MODE is "true" (then AddRecipe returns nil at
\* once, with no call to the repository), AddRecipe creates the branch
\* refs/heads/<dashed name> from the head of main that it has just read and
\* commits the recipe file and the new recipes.md to that branch only: main
\* never changes, every write names the branch that this call created, no
\* step changes a branch that existed before the call, and a call that
\* returns without error has made both commits; when the branch exists
\* already, the call fails at the branch creation and writes no file.
GitWritesOnlyToNewBranch ==
    /\ [](/\ GitWritesTargetNewBranch
          /\ (route = "git-add" /\ pc = "done" /\ resp.status = 200)
                => IF req.debugMode THEN calls = <<>> ELSE GitCommitted)
    /\ [][/\ GitStepTouchesOnlyNewBranch
          /\ (pc = "getref" /\ RefOf(req.RecipeName) \in DOMAIN blobs)
                => /\ blobs' = blobs
                   /\ (pc' = "done" => (resp'.status = 500 \/ req.debugMode))
          /\ (pc = "createref" /\ RefOf(req.RecipeName) \in DOMAIN blobs)
                => (blobs' = blobs /\ pc' = "done" /\ resp'.status = 500)]_vars

\* a second call for a name with the same dashed form has failed at the
\* branch creation, after the first call had committed both files
GitWritesOnlyToNewBranchWitness ==
    /\ served = 2 /\ pc = "done" /\ resp.status = 500
    /\ calls[Len(calls)].fn = "CreateRef" /\ calls[Len(calls)].out.kind = "exists"
    /\ \E f \in blobs[RefOf(req.RecipeName)] : f.path = recipePath(req.RecipeName)
    /\ \E f \in blobs[RefOf(req.RecipeName)] :
           f.path = <<"recipes.md">> /\ Len(f.content) > 1

-----------------------------------------------------------------------------
(* templateRecipesBlob on its own: the index document of a user for every   *)
(* small recipes table                                                       *)

MaxLayoutRows == 2

\* the values of the category column: the four named ones, the empty string
\* and one that the switch does not know
LayoutCategories == {"Hauptgericht", "Vorspeise", "Dessert", "Brot", "", "Snack"}

\* the rows a table may hold under one id: any recipe of the first user, or
\* one recipe of the second
LayoutRows(id) ==
    {[id |-> id, user_id |-> 1, title |-> t, content |-> AnyContent, category |-> c] :
        t \in Titles, c \in LayoutCategories}
    \cup {[id |-> id, user_id |-> 2, title |-> AnyTitle, content |-> AnyContent,
           category |-> "Hauptgericht"]}

LayoutTables ==
    UNION {{ {f[i] : i \in 1..n} : f \in {g \in [1..n -> UNION {LayoutRows(i) : i \in 1..n}] :
                                              \A i \in 1..n : g[i] \in LayoutRows(i)} } :
            n \in 0..MaxLayoutRows}

\* templateRecipesBlob("acct1", 1) is about to run
InitLayout ==
    /\ route = "template"
    /\ req = NoRequest
    /\ pc = "index"
    /\ loc = [Loc0 EXCEPT !.userID = 1, !.account = "acct1"]
    /\ calls = <<>>
    /\ resp = NoResp
    /\ served = 1
    /\ users = InitUsers
    /\ db \in LayoutTables
    /\ nextId = MaxLayoutRows + 1
    /\ blobs = InitBlobs
    /\ globals = NoGlobals

NextLayout ==
    \/ templateRecipesBlob_query("Error creating recipes.md")
    \/ templateRecipesBlob_upload("Error creating recipes.md", Reply(200, ""))

SpecLayout == InitLayout /\ [][NextLayout]_vars

-----------------------------------------------------------------------------
(* Properties of the index document *)

\* the section headings in the order the document must show them
SectionHeadings ==
    <<"Hauptgerichte\n", "\nVorspeisen\n", "\nDesserts\n", "\nBrot\n", "\nSonstiges\n">>

\* the heading a stored category belongs under
HeadingOf(category) ==
    CASE category = "Hauptgericht" -> 1
      [] category = "Vorspeise" -> 2
      [] category = "Dessert" -> 3
      [] category = "Brot" -> 4
      [] OTHER -> 5

\* the places of heading k in a document
HeadingPlaces(doc, k) == {i \in 1..Len(doc) : doc[i] = SectionHeadings[k]}

\* the text between heading k and the next heading, or the end
SectionText(doc, k) ==
    LET from == CHOOSE i \in HeadingPlaces(doc, k) : TRUE
        to == IF k = 5 THEN Len(doc) + 1 ELSE CHOOSE i \in HeadingPlaces(doc, k + 1) : TRUE
    IN  SubSeq(doc, from + 1, to - 1)

\* the link of a recipe row
LinkOf(row) ==
    <<"- [">> \o row.title \o <<"](/?recipe=">> \o ReplaceAll(row.title, " ", "-") \o <<")\n">>

\* how often a link occurs in a text
Occurrences(text, link) ==
    Cardinality({i \in 1..Len(text) :
        i + Len(link) - 1 <= Len(text) /\ SubSeq(text, i, i + Len(link) - 1) = link})

\* the document lists the rows of the table db of user u as the claim says
LayoutOf(doc, u) ==
    LET mine == {r \in db : r.user_id = u}
        under(k) == {r \in mine : HeadingOf(r.category) = k}
    IN  /\ \A k \in 1..5 : Cardinality(HeadingPlaces(doc, k)) = 1
        /\ \A k \in 1..4 :
              (CHOOSE i \in HeadingPlaces(doc, k) : TRUE)
                  < (CHOOSE i \in HeadingPlaces(doc, k + 1) : TRUE)
        /\ \A k \in 1..5 :
              /\ \A r \in under(k) :
                    Occurrences(SectionText(doc, k), LinkOf(r))
                        = Cardinality({q \in under(k) : q.title = r.title})
              /\ Cardinality({i \in 1..Len(SectionText(doc, k)) :
                                 SectionText(doc, k)[i] = "- ["}) = Cardinality(under(k))

\* C30: the document built by templateRecipesBlob, and the recipes.md it
\* uploads, list every recipe row of the user exactly once, as a link under
\* the section of its stored category, and a row with any other category,
\* the empty string included, under Sonstiges; the five headings appear once
\* each, in the order Hauptgerichte, Vorspeisen, Desserts, Brot, Sonstiges,
\* also over an empty section.
IndexDocumentLayout ==
    route = "template" =>
        /\ pc = "publish" => LayoutOf(loc.doc, loc.userID)
        /\ (pc = "done" /\ resp.status = 200 /\ calls[Len(calls)].out.kind = "ok")
              => \E b \in blobs[loc.account] :
                    b.path = <<"recipes.md">> /\ b.content = loc.doc
                        /\ LayoutOf(b.content, loc.userID)

\* the uploaded document of a user with a bread recipe and a recipe of an
\* unknown category, whose other three sections are empty
IndexDocumentLayoutWitness ==
    /\ route = "template" /\ pc = "done" /\ resp.status = 200
    /\ calls[Len(calls)].out.kind = "ok"
    /\ {r.category : r \in {q \in db : q.user_id = 1}} = {"Brot", "Snack"}
    /\ \E b \in blobs["acct1"] :
          /\ b.path = <<"recipes.md">>
          /\ SectionText(b.content, 1) = <<>>
          /\ Len(SectionText(b.content, 4)) > 0
          /\ Len(SectionText(b.content, 5)) > 0

=============================================================================
